---- MODULE Spec2Model ----
(***************************************************************************)
(* Partition-table discovery and recovery of PocketDarwin / OCMobile:      *)
(*   src/unnamed/part_002  lines 68-547   partition_aarch64.c              *)
(*   src/unnamed/part_002  lines 548-1352 gpt_parser_aarch64.c             *)
(*   src/OCMobile/Platform/OpenParitionDxe/Mbr.c  mbr_parser_aarch64.c     *)
(*                                                                         *)
(* The device is a byte array.  Every on-disk quantity is the sequence of  *)
(* its little-endian bytes, so a u32 is four bytes and a u64 eight, and    *)
(* arithmetic wraps at the true width 2^32 or 2^64.                        *)
(***************************************************************************)
EXTENDS Integers, Sequences, FiniteSets, TLC

VARIABLES
    disk,        \* the device's bytes, disk[o + 1] is the byte at offset o
    block_size,  \* block_device_t.block_size
    total_sectors, \* block_device_t.total_sectors, a number of blocks
    env,         \* the environment: which requests fail, what the stack holds
    phase,       \* "idle" between calls, "done" after a call returned
    call,        \* the call that returned last and its arguments
    pre,         \* the device's bytes when that call was entered
    ret,         \* what the call returned and the requests it issued
    part         \* the partition device in use, if any

vars == <<disk, block_size, total_sectors, env, phase, call, pre, ret, part>>

-----------------------------------------------------------------------------
(* Unsigned integers as little-endian byte sequences.                      *)

\* a local variable: value is computed once and named in F
Bind(value, F(_)) == F(value)

Zeros(w) == [i \in 1..w |-> 0]

Ones(w) == [i \in 1..w |-> 255]

\* the w-byte encoding of a natural number n < 2^31
LE(n, w) ==
    [i \in 1..w |-> CASE i = 1 -> n % 256
                      [] i = 2 -> (n \div 256) % 256
                      [] i = 3 -> (n \div 65536) % 256
                      [] i = 4 -> (n \div 16777216) % 256
                      [] OTHER -> 0]

u32(n) == LE(n, 4)

u64(n) == LE(n, 8)

\* a value below 2^24, which the model may use as an index
IsSmall(a) == \A i \in 4..Len(a) : a[i] = 0

Val(a) == a[1] + 256 * a[2] + 65536 * a[3]

\* integer promotion of a u32 or u8 to a wider type
Zext(a, w) == [i \in 1..w |-> IF i <= Len(a) THEN a[i] ELSE 0]

\* truncation to a narrower type
Trunc(a, w) == [i \in 1..w |-> a[i]]

\* a + b + cin modulo 2^(8 * Len(a))
AddC(a, b, cin) ==
    LET w == Len(a)
        c[i \in 0..w] == IF i = 0 THEN cin ELSE (a[i] + b[i] + c[i - 1]) \div 256
    IN  [i \in 1..w |-> (a[i] + b[i] + c[i - 1]) % 256]

Add(a, b) == AddC(a, b, 0)

\* a - b modulo 2^(8 * Len(a))
Sub(a, b) == AddC(a, [i \in 1..Len(a) |-> 255 - b[i]], 1)

\* a * b modulo 2^(8 * Len(a))
Mul(a, b) ==
    LET w == Len(a)
        col[k \in 1..w] ==
            LET s[i \in 0..k] == IF i = 0 THEN 0 ELSE s[i - 1] + a[i] * b[k + 1 - i]
            IN  s[k]
        c[k \in 0..w] == IF k = 0 THEN 0 ELSE (col[k] + c[k - 1]) \div 256
    IN  [k \in 1..w |-> (col[k] + c[k - 1]) % 256]

\* the product of two u32 does not fit 32 bits
MulOverflows32(a, b) ==
    LET p == Mul(Zext(a, 8), Zext(b, 8)) IN \E i \in 5..8 : p[i] # 0

\* a < b, compared from the most significant byte down
Lt(a, b) ==
    \E i \in 1..Len(a) : /\ a[i] < b[i]
                         /\ \A j \in (i + 1)..Len(a) : a[j] = b[j]

Gt(a, b) == Lt(b, a)

Le(a, b) == ~Lt(b, a)

Ge(a, b) == ~Lt(a, b)

-----------------------------------------------------------------------------
(* Bitwise exclusive or of bytes, from a table built once.                 *)

XorBit(a, b, k) == ((((a \div k) % 2) + ((b \div k) % 2)) % 2) * k

Xor4 == [a \in 0..15 |-> [b \in 0..15 |->
            XorBit(a, b, 1) + XorBit(a, b, 2) + XorBit(a, b, 4) + XorBit(a, b, 8)]]

Xor8 == [a \in 0..255 |-> [b \in 0..255 |->
            Xor4[a % 16][b % 16] + 16 * Xor4[a \div 16][b \div 16]]]

\* bit k (a power of two) of the byte b is set
BitSet(b, k) == (b \div k) % 2 = 1

-----------------------------------------------------------------------------
(* CRC32: gpt_parser_aarch64.c crc32_table and calculate_crc32.  A table   *)
(* entry and the accumulator are u32, least significant byte first.        *)

crc32_table == <<
    <<0,0,0,0>>, <<150,48,7,119>>, <<44,97,14,238>>, <<186,81,9,153>>,
    <<25,196,109,7>>, <<143,244,106,112>>, <<53,165,99,233>>, <<163,149,100,158>>,
    <<50,136,219,14>>, <<164,184,220,121>>, <<30,233,213,224>>, <<136,217,210,151>>,
    <<43,76,182,9>>, <<189,124,177,126>>, <<7,45,184,231>>, <<145,29,191,144>>,
    <<100,16,183,29>>, <<242,32,176,106>>, <<72,113,185,243>>, <<222,65,190,132>>,
    <<125,212,218,26>>, <<235,228,221,109>>, <<81,181,212,244>>, <<199,133,211,131>>,
    <<86,152,108,19>>, <<192,168,107,100>>, <<122,249,98,253>>, <<236,201,101,138>>,
    <<79,92,1,20>>, <<217,108,6,99>>, <<99,61,15,250>>, <<245,13,8,141>>,
    <<200,32,110,59>>, <<94,16,105,76>>, <<228,65,96,213>>, <<114,113,103,162>>,
    <<209,228,3,60>>, <<71,212,4,75>>, <<253,133,13,210>>, <<107,181,10,165>>,
    <<250,168,181,53>>, <<108,152,178,66>>, <<214,201,187,219>>, <<64,249,188,172>>,
    <<227,108,216,50>>, <<117,92,223,69>>, <<207,13,214,220>>, <<89,61,209,171>>,
    <<172,48,217,38>>, <<58,0,222,81>>, <<128,81,215,200>>, <<22,97,208,191>>,
    <<181,244,180,33>>, <<35,196,179,86>>, <<153,149,186,207>>, <<15,165,189,184>>,
    <<158,184,2,40>>, <<8,136,5,95>>, <<178,217,12,198>>, <<36,233,11,177>>,
    <<135,124,111,47>>, <<17,76,104,88>>, <<171,29,97,193>>, <<61,45,102,182>>,
    <<144,65,220,118>>, <<6,113,219,1>>, <<188,32,210,152>>, <<42,16,213,239>>,
    <<137,133,177,113>>, <<31,181,182,6>>, <<165,228,191,159>>, <<51,212,184,232>>,
    <<162,201,7,120>>, <<52,249,0,15>>, <<142,168,9,150>>, <<24,152,14,225>>,
    <<187,13,106,127>>, <<45,61,109,8>>, <<151,108,100,145>>, <<1,92,99,230>>,
    <<244,81,107,107>>, <<98,97,108,28>>, <<216,48,101,133>>, <<78,0,98,242>>,
    <<237,149,6,108>>, <<123,165,1,27>>, <<193,244,8,130>>, <<87,196,15,245>>,
    <<198,217,176,101>>, <<80,233,183,18>>, <<234,184,190,139>>, <<124,136,185,252>>,
    <<223,29,221,98>>, <<73,45,218,21>>, <<243,124,211,140>>, <<101,76,212,251>>,
    <<88,97,178,77>>, <<206,81,181,58>>, <<116,0,188,163>>, <<226,48,187,212>>,
    <<65,165,223,74>>, <<215,149,216,61>>, <<109,196,209,164>>, <<251,244,214,211>>,
    <<106,233,105,67>>, <<252,217,110,52>>, <<70,136,103,173>>, <<208,184,96,218>>,
    <<115,45,4,68>>, <<229,29,3,51>>, <<95,76,10,170>>, <<201,124,13,221>>,
    <<60,113,5,80>>, <<170,65,2,39>>, <<16,16,11,190>>, <<134,32,12,201>>,
    <<37,181,104,87>>, <<179,133,111,32>>, <<9,212,102,185>>, <<159,228,97,206>>,
    <<14,249,222,94>>, <<152,201,217,41>>, <<34,152,208,176>>, <<180,168,215,199>>,
    <<23,61,179,89>>, <<129,13,180,46>>, <<59,92,189,183>>, <<173,108,186,192>>,
    <<32,131,184,237>>, <<182,179,191,154>>, <<12,226,182,3>>, <<154,210,177,116>>,
    <<57,71,213,234>>, <<175,119,210,157>>, <<21,38,219,4>>, <<131,22,220,115>>,
    <<18,11,99,227>>, <<132,59,100,148>>, <<62,106,109,13>>, <<168,90,106,122>>,
    <<11,207,14,228>>, <<157,255,9,147>>, <<39,174,0,10>>, <<177,158,7,125>>,
    <<68,147,15,240>>, <<210,163,8,135>>, <<104,242,1,30>>, <<254,194,6,105>>,
    <<93,87,98,247>>, <<203,103,101,128>>, <<113,54,108,25>>, <<231,6,107,110>>,
    <<118,27,212,254>>, <<224,43,211,137>>, <<90,122,218,16>>, <<204,74,221,103>>,
    <<111,223,185,249>>, <<249,239,190,142>>, <<67,190,183,23>>, <<213,142,176,96>>,
    <<232,163,214,214>>, <<126,147,209,161>>, <<196,194,216,56>>, <<82,242,223,79>>,
    <<241,103,187,209>>, <<103,87,188,166>>, <<221,6,181,63>>, <<75,54,178,72>>,
    <<218,43,13,216>>, <<76,27,10,175>>, <<246,74,3,54>>, <<96,122,4,65>>,
    <<195,239,96,223>>, <<85,223,103,168>>, <<239,142,110,49>>, <<121,190,105,70>>,
    <<140,179,97,203>>, <<26,131,102,188>>, <<160,210,111,37>>, <<54,226,104,82>>,
    <<149,119,12,204>>, <<3,71,11,187>>, <<185,22,2,34>>, <<47,38,5,85>>,
    <<190,59,186,197>>, <<40,11,189,178>>, <<146,90,180,43>>, <<4,106,179,92>>,
    <<167,255,215,194>>, <<49,207,208,181>>, <<139,158,217,44>>, <<29,174,222,91>>,
    <<176,194,100,155>>, <<38,242,99,236>>, <<156,163,106,117>>, <<10,147,109,2>>,
    <<169,6,9,156>>, <<63,54,14,235>>, <<133,103,7,114>>, <<19,87,0,5>>,
    <<130,74,191,149>>, <<20,122,184,226>>, <<174,43,177,123>>, <<56,27,182,12>>,
    <<155,142,210,146>>, <<13,190,213,229>>, <<183,239,220,124>>, <<33,223,219,11>>,
    <<212,210,211,134>>, <<66,226,212,241>>, <<248,179,221,104>>, <<110,131,218,31>>,
    <<205,22,190,129>>, <<91,38,185,246>>, <<225,119,176,111>>, <<119,71,183,24>>,
    <<230,90,8,136>>, <<112,106,15,255>>, <<202,59,6,102>>, <<92,11,1,17>>,
    <<255,158,101,143>>, <<105,174,98,248>>, <<211,255,107,97>>, <<69,207,108,22>>,
    <<120,226,10,160>>, <<238,210,13,215>>, <<84,131,4,78>>, <<194,179,3,57>>,
    <<97,38,103,167>>, <<247,22,96,208>>, <<77,71,105,73>>, <<219,119,110,62>>,
    <<74,106,209,174>>, <<220,90,214,217>>, <<102,11,223,64>>, <<240,59,216,55>>,
    <<83,174,188,169>>, <<197,158,187,222>>, <<127,207,178,71>>, <<233,255,181,48>>,
    <<28,242,189,189>>, <<138,194,186,202>>, <<48,147,179,83>>, <<166,163,180,36>>,
    <<5,54,208,186>>, <<147,6,215,205>>, <<41,87,222,84>>, <<191,103,217,35>>,
    <<46,122,102,179>>, <<184,74,97,196>>, <<2,27,104,93>>, <<148,43,111,42>>,
    <<55,190,11,180>>, <<161,142,12,195>>, <<27,223,5,90>>, <<141,239,2,45>>
>>

\* partition_aarch64.c: the table holds four initialisers, the rest is zero
crc32_table_short ==
    [i \in 1..256 |-> IF i <= 4 THEN crc32_table[i] ELSE Zeros(4)]

\* crc = table[(crc ^ p[i]) & 0xFF] ^ (crc >> 8)
crc32_step(table, crc, p) ==
    LET t == table[Xor8[crc[1]][p] + 1]
    IN  <<Xor8[t[1]][crc[2]], Xor8[t[2]][crc[3]], Xor8[t[3]][crc[4]], t[4]>>

\* the loop over data[lo..hi], split in halves to keep the evaluation shallow
\* (the test on left is always true; it makes the left half complete first)
RECURSIVE crc32_loop(_, _, _, _, _)
crc32_loop(table, data, lo, hi, crc) ==
    IF lo > hi THEN crc
    ELSE IF lo = hi THEN crc32_step(table, crc, data[lo])
    ELSE Bind(crc32_loop(table, data, lo, (lo + hi) \div 2, crc), LAMBDA left :
             IF left[1] >= 0
             THEN crc32_loop(table, data, (lo + hi) \div 2 + 1, hi, left)
             ELSE left)

crc32_with(table, data, length) ==
    Bind(crc32_loop(table, data, 1, length, Ones(4)), LAMBDA crc :
        [i \in 1..4 |-> 255 - crc[i]])

\* gpt_parser_aarch64.c
calculate_crc32(data, length) == crc32_with(crc32_table, data, length)

\* partition_aarch64.c
calculate_crc32_short(data, length) == crc32_with(crc32_table_short, data, length)

-----------------------------------------------------------------------------
(* Raw buffers and the packed structures overlaid on them.                 *)

\* the n bytes of buf at byte offset off (0-based, as in C)
Bytes(buf, off, n) == SubSeq(buf, off + 1, off + n)

\* buf with the bytes at offset off replaced by val
SetBytes(buf, off, val) ==
    [i \in 1..Len(buf) |->
        IF i > off /\ i <= off + Len(val) THEN val[i - off] ELSE buf[i]]

SECTOR_SIZE == 512

PRIMARY_PART_HEADER_LBA == 1

MAX_MBR_PARTITIONS == 4

PMBR_GPT_PARTITION == 238

\* 0x5452415020494645 "EFI PART", least significant byte first
GPT_HEADER_SIGNATURE == <<69, 70, 73, 32, 80, 65, 82, 84>>

\* 0xAA55, least significant byte first
MBR_SIGNATURE == <<85, 170>>

\* sizeof(gpt_header_t), packed
SizeofGptHeader == 92

\* sizeof(gpt_partition_entry_t), packed
SizeofGptEntry == 128

\* sizeof(master_boot_record_t), packed
SizeofMbr == 512

\* gpt_header_t
H_signature(h) == Bytes(h, 0, 8)
H_header_size(h) == Bytes(h, 12, 4)
H_header_crc32(h) == Bytes(h, 16, 4)
H_my_lba(h) == Bytes(h, 24, 8)
H_alternate_lba(h) == Bytes(h, 32, 8)
H_first_usable_lba(h) == Bytes(h, 40, 8)
H_last_usable_lba(h) == Bytes(h, 48, 8)
H_partition_entry_lba(h) == Bytes(h, 72, 8)
H_num_partition_entries(h) == Bytes(h, 80, 4)
H_partition_entry_size(h) == Bytes(h, 84, 4)
H_partition_array_crc32(h) == Bytes(h, 88, 4)

\* gpt_partition_entry_t
E_partition_type_guid(e) == Bytes(e, 0, 16)
E_unique_guid(e) == Bytes(e, 16, 16)
E_starting_lba(e) == Bytes(e, 32, 8)
E_ending_lba(e) == Bytes(e, 40, 8)
E_attributes(e) == Bytes(e, 48, 8)

GUID_UNUSED == Zeros(16)

\* GUID_EFI_SYSTEM C12A7328-F81F-11D2-BA4B-00A0C93EC93B as laid out in memory
GUID_EFI_SYSTEM ==
    <<40, 115, 42, 193, 31, 248, 210, 17, 186, 75, 0, 160, 201, 62, 201, 59>>

compare_guid(g1, g2) == g1 = g2

\* mbr_partition_t number i (0..3) of a master_boot_record_t
M_partition(mbr, i) == Bytes(mbr, 446 + 16 * i, 16)
M_signature(mbr) == Bytes(mbr, 510, 2)
P_boot_indicator(p) == p[1]
P_os_indicator(p) == p[5]
P_starting_lba(p) == Bytes(p, 8, 4)
P_size_in_lba(p) == Bytes(p, 12, 4)

-----------------------------------------------------------------------------
(* The environment: the block device and the allocator.  A call runs with  *)
(* a context c: the device bytes, the requests issued so far, the number   *)
(* of live allocations, and the plan of the requests that fail.            *)

\* the status a failing device request returns (any value but success)
DEVICE_ERROR == "NO_MEDIA"

NoFaults == [alloc |-> {}, read |-> {}, write |-> {}]

NewCtx(d, bs, plan) ==
    [disk |-> d, bs |-> bs, io |-> <<>>, nalloc |-> 0, nread |-> 0,
     nwrite |-> 0, live |-> 0, plan |-> plan]

\* block_size as the u64 factor of lba * block_size
BlockSize64(c) == Zext(u32(c.bs), 8)

\* alloc_pool: the stub returns NULL; a real allocator may return memory
alloc_pool(c) ==
    LET n == c.nalloc + 1
        ok == n \notin c.plan.alloc
    IN  [ctx |-> [c EXCEPT !.nalloc = n, !.live = @ + (IF ok THEN 1 ELSE 0)],
         ok |-> ok]

alloc_zero_pool(c) == alloc_pool(c)

free_pool(c) == [c EXCEPT !.live = @ - 1]

\* the request lies inside the device
InDevice(d, offset, size) ==
    /\ IsSmall(offset) /\ IsSmall(size)
    /\ Val(offset) + Val(size) <= Len(d)

\* block_device_t.read_disk(dev, media_id, offset, size, buffer)
read_disk(c, offset, size) ==
    LET n == c.nread + 1
        ok == n \notin c.plan.read /\ InDevice(c.disk, offset, size)
    IN  [ctx |-> [c EXCEPT !.nread = n,
                           !.io = Append(@, [op |-> "read", offset |-> offset,
                                             size |-> size, ok |-> ok])],
         status |-> IF ok THEN "SUCCESS" ELSE DEVICE_ERROR,
         buf |-> IF ok THEN Bytes(c.disk, Val(offset), Val(size)) ELSE <<>>]

\* block_device_t.write_disk(dev, media_id, offset, size, buffer)
write_disk(c, offset, size, buffer) ==
    LET n == c.nwrite + 1
        ok == n \notin c.plan.write /\ InDevice(c.disk, offset, size)
    IN  [ctx |-> [c EXCEPT !.nwrite = n,
                           !.io = Append(@, [op |-> "write", offset |-> offset,
                                             size |-> size, ok |-> ok,
                                             data |-> buffer]),
                           !.disk = IF ok
                                    THEN SetBytes(@, Val(offset),
                                                  SubSeq(buffer, 1, Val(size)))
                                    ELSE @],
         status |-> IF ok THEN "SUCCESS" ELSE DEVICE_ERROR]

-----------------------------------------------------------------------------
(* gpt_parser_aarch64.c: checksum validation.                              *)

\* returns the verdict and the header with the recomputed checksum stored
check_header_crc(max_size, size, header) ==
    IF size = Zeros(4) THEN [ok |-> FALSE, header |-> header]
    ELSE IF max_size # Zeros(4) /\ Gt(size, max_size)
    THEN [ok |-> FALSE, header |-> header]
    ELSE Bind(calculate_crc32(SetBytes(header, 16, Zeros(4)), Val(size)),
              LAMBDA calculated_crc :
                  [ok |-> H_header_crc32(header) = calculated_crc,
                   header |-> SetBytes(header, 16, calculated_crc)])

\* a checksum taken over the header with the old checksum still in it
set_header_crc_over_old(size, header) ==
    SetBytes(header, 16, calculate_crc32(header, Val(size)))

set_header_crc(size, header) ==
    LET zeroed == SetBytes(header, 16, Zeros(4))
    IN  SetBytes(header, 16, calculate_crc32(zeroed, Val(size)))

\* u32 entries_size = num_partition_entries * partition_entry_size
EntriesSize(header) ==
    Mul(H_num_partition_entries(header), H_partition_entry_size(header))

validate_gpt_entry_array_crc(c, header) ==
    Bind(alloc_pool(c), LAMBDA a :
    IF ~a.ok THEN [ctx |-> a.ctx, ok |-> FALSE]
    ELSE
    Bind(read_disk(a.ctx, Mul(H_partition_entry_lba(header), BlockSize64(c)),
                   EntriesSize(header)), LAMBDA r :
    IF r.status # "SUCCESS"
    THEN [ctx |-> free_pool(r.ctx), ok |-> FALSE]
    ELSE [ctx |-> free_pool(r.ctx),
          ok |-> H_partition_array_crc32(header)
                   = calculate_crc32(r.buf, Val(EntriesSize(header)))]))

\* num > 0xFFFFFFFFFFFFFFFF / size, for size > 0: the exact product of the
\* two promoted u32 exceeds 2^64 - 1
ExceedsU64Quotient(num, size) ==
    Gt(Mul(Zext(num, 16), Zext(size, 16)), Zext(Ones(8), 16))

\* a validation that accepts a header wherever it was read from
validate_gpt_header_anywhere(c, lba, header_out, header) ==
    Bind(check_header_crc(u32(c.bs), H_header_size(header), header), LAMBDA chk :
    IF ~chk.ok
    THEN [ctx |-> free_pool(c), ok |-> FALSE, out |-> header_out]
    ELSE IF Lt(H_partition_entry_size(chk.header), u32(SizeofGptEntry))
    THEN [ctx |-> free_pool(c), ok |-> FALSE, out |-> header_out]
    ELSE IF ExceedsU64Quotient(H_num_partition_entries(chk.header),
                               H_partition_entry_size(chk.header))
    THEN [ctx |-> free_pool(c), ok |-> FALSE, out |-> header_out]
    ELSE
    Bind(Bytes(chk.header, 0, SizeofGptHeader), LAMBDA copied :
    Bind(validate_gpt_entry_array_crc(c, copied), LAMBDA v :
    [ctx |-> free_pool(v.ctx), ok |-> v.ok, out |-> copied])))

\* validate_gpt_table from the header checksum on; header is the block read
validate_gpt_header(c, lba, header_out, header) ==
    Bind(check_header_crc(u32(c.bs), H_header_size(header), header), LAMBDA chk :
    IF ~chk.ok
    THEN [ctx |-> free_pool(c), ok |-> FALSE, out |-> header_out]
    ELSE IF H_my_lba(chk.header) # lba
    THEN [ctx |-> free_pool(c), ok |-> FALSE, out |-> header_out]
    ELSE IF Lt(H_partition_entry_size(chk.header), u32(SizeofGptEntry))
    THEN [ctx |-> free_pool(c), ok |-> FALSE, out |-> header_out]
    ELSE IF ExceedsU64Quotient(H_num_partition_entries(chk.header),
                               H_partition_entry_size(chk.header))
    THEN [ctx |-> free_pool(c), ok |-> FALSE, out |-> header_out]
    ELSE
    Bind(Bytes(chk.header, 0, SizeofGptHeader), LAMBDA copied :
    Bind(validate_gpt_entry_array_crc(c, copied), LAMBDA v :
    [ctx |-> free_pool(v.ctx), ok |-> v.ok, out |-> copied])))

\* returns the verdict and what header_out holds afterwards
validate_gpt_table(c, lba, header_out) ==
    Bind(alloc_zero_pool(c), LAMBDA a :
    IF ~a.ok THEN [ctx |-> a.ctx, ok |-> FALSE, out |-> header_out]
    ELSE
    Bind(read_disk(a.ctx, Mul(lba, BlockSize64(c)), u32(c.bs)), LAMBDA r :
    IF r.status # "SUCCESS"
    THEN [ctx |-> free_pool(r.ctx), ok |-> FALSE, out |-> header_out]
    ELSE IF H_signature(r.buf) # GPT_HEADER_SIGNATURE
    THEN [ctx |-> free_pool(r.ctx), ok |-> FALSE, out |-> header_out]
    ELSE validate_gpt_header(r.ctx, lba, header_out, r.buf)))

-----------------------------------------------------------------------------
(* gpt_parser_aarch64.c: entry checks.                                     *)

\* the largest entry count the loops of the model walk
MaxWalk == 8

\* the number of iterations of a loop i < num_partition_entries
WalkCount(header) ==
    LET num == H_num_partition_entries(header)
    IN  IF IsSmall(num) /\ Val(num) <= MaxWalk THEN Val(num) ELSE MaxWalk

\* (u8*)entries + i * partition_entry_size, the offset a u32 product
EntryOffset(header, i) == Mul(u32(i), H_partition_entry_size(header))

\* the entry lies inside the buffer that was read
EntryInBuffer(header, entries, i) ==
    LET off == EntryOffset(header, i)
    IN  IsSmall(off) /\ Val(off) + SizeofGptEntry <= Len(entries)

EntryAt(header, entries, i) ==
    IF EntryInBuffer(header, entries, i)
    THEN Bytes(entries, Val(EntryOffset(header, i)), SizeofGptEntry)
    ELSE Zeros(SizeofGptEntry)

NoStatus == [out_of_range |-> FALSE, overlap |-> FALSE, os_specific |-> FALSE]

EntryOutOfRange(header, entry) ==
    LET start_lba == E_starting_lba(entry)
        end_lba == E_ending_lba(entry)
    IN  \/ Gt(start_lba, end_lba)
        \/ Lt(start_lba, H_first_usable_lba(header))
        \/ Gt(start_lba, H_last_usable_lba(header))
        \/ Lt(end_lba, H_first_usable_lba(header))
        \/ Gt(end_lba, H_last_usable_lba(header))

\* an overlap test that lets two entries share a boundary block
RECURSIVE check_overlaps_exclusive(_, _, _, _, _)
check_overlaps_exclusive(header, entries, st, i, j) ==
    IF j >= WalkCount(header) THEN st
    ELSE LET entry == EntryAt(header, entries, i)
             other_entry == EntryAt(header, entries, j)
         IN  IF compare_guid(E_partition_type_guid(other_entry), GUID_UNUSED)
             THEN check_overlaps_exclusive(header, entries, st, i, j + 1)
             ELSE IF /\ Gt(E_ending_lba(other_entry), E_starting_lba(entry))
                     /\ Lt(E_starting_lba(other_entry), E_ending_lba(entry))
             THEN check_overlaps_exclusive(header, entries,
                                 [st EXCEPT ![i].overlap = TRUE,
                                            ![j].overlap = TRUE], i, j + 1)
             ELSE check_overlaps_exclusive(header, entries, st, i, j + 1)

\* the loop over j = i + 1 .. num_partition_entries - 1
RECURSIVE check_overlaps(_, _, _, _, _)
check_overlaps(header, entries, st, i, j) ==
    IF j >= WalkCount(header) THEN st
    ELSE LET entry == EntryAt(header, entries, i)
             other_entry == EntryAt(header, entries, j)
         IN  IF compare_guid(E_partition_type_guid(other_entry), GUID_UNUSED)
             THEN check_overlaps(header, entries, st, i, j + 1)
             ELSE IF /\ Ge(E_ending_lba(other_entry), E_starting_lba(entry))
                     /\ Le(E_starting_lba(other_entry), E_ending_lba(entry))
             THEN check_overlaps(header, entries,
                                 [st EXCEPT ![i].overlap = TRUE,
                                            ![j].overlap = TRUE], i, j + 1)
             ELSE check_overlaps(header, entries, st, i, j + 1)

\* the loop over i = 0 .. num_partition_entries - 1
RECURSIVE check_entries_from(_, _, _, _)
check_entries_from(header, entries, st, i) ==
    IF i >= WalkCount(header) THEN st
    ELSE LET entry == EntryAt(header, entries, i)
         IN  IF compare_guid(E_partition_type_guid(entry), GUID_UNUSED)
             THEN check_entries_from(header, entries, st, i + 1)
             ELSE IF EntryOutOfRange(header, entry)
             THEN check_entries_from(header, entries,
                                     [st EXCEPT ![i].out_of_range = TRUE], i + 1)
             ELSE LET st1 == IF BitSet(E_attributes(entry)[1], 2)
                             THEN [st EXCEPT ![i].os_specific = TRUE]
                             ELSE st
                  IN  check_entries_from(header, entries,
                          check_overlaps(header, entries, st1, i, i + 1), i + 1)

\* entry_status is zero-filled by the caller
check_gpt_entries(header, entries) ==
    check_entries_from(header, entries,
                       [i \in 0..(WalkCount(header) - 1) |-> NoStatus], 0)

-----------------------------------------------------------------------------
(* gpt_parser_aarch64.c: restoration.                                      *)

\* the two entry locations taken the other way round
new_entry_lba_swapped(header) ==
    IF H_my_lba(header) = u64(PRIMARY_PART_HEADER_LBA)
    THEN u64(PRIMARY_PART_HEADER_LBA + 1)
    ELSE Add(H_last_usable_lba(header), u64(1))

\* "Determine new partition entry LBA"
new_entry_lba(header) ==
    IF H_my_lba(header) = u64(PRIMARY_PART_HEADER_LBA)
    THEN Add(H_last_usable_lba(header), u64(1))
    ELSE u64(PRIMARY_PART_HEADER_LBA + 1)

\* a restoration that swaps the addresses and keeps the old checksum
restored_header_stale(c, header) ==
    SetBytes(SetBytes(SetBytes(
        SetBytes(Zeros(c.bs), 0, Bytes(header, 0, SizeofGptHeader)),
        24, H_alternate_lba(header)),
        32, H_my_lba(header)),
        72, new_entry_lba(header))

\* "Copy and update header", "Update CRC": the block that is written
restored_header(c, header) ==
    Bind(SetBytes(SetBytes(SetBytes(
             SetBytes(Zeros(c.bs), 0, Bytes(header, 0, SizeofGptHeader)),
             24, H_alternate_lba(header)),
             32, H_my_lba(header)),
             72, new_entry_lba(header)), LAMBDA swapped :
        set_header_crc(H_header_size(swapped), swapped))

\* restore_gpt_table from "Read and write partition entries" on
restore_gpt_entries(c, header) ==
    Bind(alloc_pool(c), LAMBDA e :
    IF ~e.ok THEN [ctx |-> free_pool(e.ctx), ok |-> FALSE]
    ELSE
    Bind(read_disk(e.ctx, Mul(H_partition_entry_lba(header), BlockSize64(c)),
                   EntriesSize(header)), LAMBDA r :
    IF r.status # "SUCCESS"
    THEN [ctx |-> free_pool(free_pool(r.ctx)), ok |-> FALSE]
    ELSE
    Bind(write_disk(r.ctx, Mul(new_entry_lba(header), BlockSize64(c)),
                    EntriesSize(header), r.buf), LAMBDA w2 :
    [ctx |-> free_pool(free_pool(w2.ctx)), ok |-> w2.status = "SUCCESS"])))

\* a restoration that copies the entries whatever the header write returned
restore_gpt_table_unchecked(c, header) ==
    Bind(alloc_zero_pool(c), LAMBDA a :
    IF ~a.ok THEN [ctx |-> a.ctx, ok |-> FALSE]
    ELSE
    Bind(restored_header(c, header), LAMBDA new_header :
    Bind(write_disk(a.ctx, Mul(H_my_lba(new_header), BlockSize64(c)),
                    u32(c.bs), new_header), LAMBDA w :
    restore_gpt_entries(w.ctx, header))))

restore_gpt_table(c, header) ==
    Bind(alloc_zero_pool(c), LAMBDA a :
    IF ~a.ok THEN [ctx |-> a.ctx, ok |-> FALSE]
    ELSE
    Bind(restored_header(c, header), LAMBDA new_header :
    Bind(write_disk(a.ctx, Mul(H_my_lba(new_header), BlockSize64(c)),
                    u32(c.bs), new_header), LAMBDA w :
    IF w.status # "SUCCESS"
    THEN [ctx |-> free_pool(w.ctx), ok |-> FALSE]
    ELSE restore_gpt_entries(w.ctx, header))))

-----------------------------------------------------------------------------
(* gpt_parser_aarch64.c: discovery.                                        *)

\* *num_partitions when the call did not store a count
NotStored == -1

\* what a discovery call hands back; live is the number of allocations it
\* left behind
Return(c, status, partitions, count) ==
    [status |-> status, partitions |-> partitions, count |-> count,
     disk |-> c.disk, io |-> c.io, live |-> c.live, nalloc |-> c.nalloc,
     nread |-> c.nread, nwrite |-> c.nwrite, tried |-> <<>>, gpt |-> "NONE"]

\* a cleanup that frees the three buffers allocated first and no other
Cleanup_first_three(c, held) ==
    [c EXCEPT !.live = @ - (IF held > 3 THEN 3 ELSE held)]

\* the cleanup label frees the held buffers
Cleanup(c, held) == [c EXCEPT !.live = @ - held]

\* gpt_partition_info_t, without the converted name
GptPartitionInfo(entry, i) ==
    [scheme |-> "GPT",
     type_guid |-> E_partition_type_guid(entry),
     unique_guid |-> E_unique_guid(entry),
     start_lba |-> E_starting_lba(entry),
     end_lba |-> E_ending_lba(entry),
     size_sectors |-> Add(Sub(E_ending_lba(entry), E_starting_lba(entry)), u64(1)),
     attributes |-> E_attributes(entry),
     partition_number |-> i + 1,
     is_system |-> compare_guid(E_partition_type_guid(entry), GUID_EFI_SYSTEM),
     is_bootable |-> BitSet(E_attributes(entry)[1], 4)]

\* a loop that fills partitions[] without looking at os_specific
RECURSIVE process_gpt_entries_keep_reserved(_, _, _, _, _, _)
process_gpt_entries_keep_reserved(header, entries, st, max_partitions, i, partitions) ==
    IF ~(i < WalkCount(header) /\ Len(partitions) < max_partitions)
    THEN partitions
    ELSE LET entry == EntryAt(header, entries, i)
         IN  IF \/ compare_guid(E_partition_type_guid(entry), GUID_UNUSED)
                \/ st[i].out_of_range
                \/ st[i].overlap
             THEN process_gpt_entries_keep_reserved(header, entries, st,
                                      max_partitions, i + 1, partitions)
             ELSE process_gpt_entries_keep_reserved(header, entries, st,
                                      max_partitions, i + 1,
                                      Append(partitions, GptPartitionInfo(entry, i)))

\* the loop that fills partitions[]: i < num_partition_entries && count < max
RECURSIVE process_gpt_entries(_, _, _, _, _, _)
process_gpt_entries(header, entries, st, max_partitions, i, partitions) ==
    IF ~(i < WalkCount(header) /\ Len(partitions) < max_partitions)
    THEN partitions
    ELSE LET entry == EntryAt(header, entries, i)
         IN  IF \/ compare_guid(E_partition_type_guid(entry), GUID_UNUSED)
                \/ st[i].out_of_range
                \/ st[i].overlap
                \/ st[i].os_specific
             THEN process_gpt_entries(header, entries, st, max_partitions,
                                      i + 1, partitions)
             ELSE process_gpt_entries(header, entries, st, max_partitions,
                                      i + 1,
                                      Append(partitions, GptPartitionInfo(entry, i)))

\* the PMBR test of discover_gpt_partitions
has_gpt_partition(mbr) ==
    \E i \in 0..(MAX_MBR_PARTITIONS - 1) :
        /\ P_boot_indicator(M_partition(mbr, i)) = 0
        /\ P_os_indicator(M_partition(mbr, i)) = PMBR_GPT_PARTITION
        /\ P_starting_lba(M_partition(mbr, i)) = u32(1)

\* from "Check partition entries" to the end; entries is the array read,
\* five buffers are held
gpt_fill(c, header, entries, max_partitions) ==
    Bind(check_gpt_entries(header, entries), LAMBDA st :
    Bind(process_gpt_entries(header, entries, st, max_partitions, 0, <<>>),
         LAMBDA partitions :
    Return(Cleanup(c, 5), "SUCCESS", partitions, Len(partitions))))

\* from "Use primary header for partition enumeration" on; header is the
\* copy chosen, three buffers (mbr, primary_header, backup_header) are held
gpt_read_entries(c, header, max_partitions) ==
    Bind(alloc_pool(c), LAMBDA e :
    IF ~e.ok THEN Return(Cleanup(e.ctx, 3), "OUT_OF_MEMORY", <<>>, NotStored)
    ELSE
    Bind(read_disk(e.ctx, Mul(H_partition_entry_lba(header), BlockSize64(c)),
                   EntriesSize(header)), LAMBDA r :
    IF r.status # "SUCCESS"
    THEN Return(Cleanup(r.ctx, 4), "ERROR", <<>>, NotStored)
    ELSE
    Bind(alloc_zero_pool(r.ctx), LAMBDA s :
    IF ~s.ok THEN Return(Cleanup(s.ctx, 4), "OUT_OF_MEMORY", <<>>, NotStored)
    ELSE gpt_fill(s.ctx, header, r.buf, max_partitions))))

\* from the test of primary_valid and backup_valid on
gpt_enumerate(c, primary_valid, backup_valid, primary_header, backup_header, max_partitions) ==
    IF ~primary_valid /\ ~backup_valid
    THEN Return(Cleanup(c, 3), "NOT_FOUND", <<>>, NotStored)
    ELSE gpt_read_entries(c, IF primary_valid THEN primary_header
                             ELSE backup_header, max_partitions)

\* a recovery that gives up when restore_gpt_table reports failure
gpt_try_backup_strict(v1, last_block, max_partitions) ==
    Bind(validate_gpt_table(v1.ctx, last_block, Zeros(SizeofGptHeader)),
         LAMBDA v2 :
    IF v2.ok
    THEN Bind(restore_gpt_table(v2.ctx, v2.out), LAMBDA rs :
         IF ~rs.ok
         THEN gpt_enumerate(rs.ctx, FALSE, FALSE, v1.out, v2.out, max_partitions)
         ELSE
         Bind(validate_gpt_table(rs.ctx, H_alternate_lba(v2.out), v1.out),
              LAMBDA v3 :
         gpt_enumerate(v3.ctx, v3.ok, TRUE, v3.out, v2.out, max_partitions)))
    ELSE gpt_enumerate(v2.ctx, FALSE, FALSE, v1.out, v2.out, max_partitions))

\* the primary did not validate: "Try backup GPT"; v1 is that validation
gpt_try_backup(v1, last_block, max_partitions) ==
    Bind(validate_gpt_table(v1.ctx, last_block, Zeros(SizeofGptHeader)),
         LAMBDA v2 :
    IF v2.ok
    THEN Bind(restore_gpt_table(v2.ctx, v2.out), LAMBDA rs :
         Bind(validate_gpt_table(rs.ctx, H_alternate_lba(v2.out), v1.out),
              LAMBDA v3 :
         gpt_enumerate(v3.ctx, v3.ok, TRUE, v3.out, v2.out, max_partitions)))
    ELSE gpt_enumerate(v2.ctx, FALSE, FALSE, v1.out, v2.out, max_partitions))

\* a check of the backup that restores it when it validated
gpt_check_backup_inverted(v1, max_partitions) ==
    Bind(validate_gpt_table(v1.ctx, H_alternate_lba(v1.out),
                            Zeros(SizeofGptHeader)), LAMBDA v2 :
    IF v2.ok
    THEN Bind(restore_gpt_table(v2.ctx, v1.out), LAMBDA rs :
         Bind(validate_gpt_table(rs.ctx, H_alternate_lba(v1.out), v2.out),
              LAMBDA v3 :
         gpt_enumerate(v3.ctx, TRUE, v3.ok, v1.out, v3.out, max_partitions)))
    ELSE gpt_enumerate(v2.ctx, TRUE, TRUE, v1.out, v2.out, max_partitions))

\* "Primary valid, check backup"; v1 is the validation of the primary
gpt_check_backup(v1, max_partitions) ==
    Bind(validate_gpt_table(v1.ctx, H_alternate_lba(v1.out),
                            Zeros(SizeofGptHeader)), LAMBDA v2 :
    IF ~v2.ok
    THEN Bind(restore_gpt_table(v2.ctx, v1.out), LAMBDA rs :
         Bind(validate_gpt_table(rs.ctx, H_alternate_lba(v1.out), v2.out),
              LAMBDA v3 :
         gpt_enumerate(v3.ctx, TRUE, v3.ok, v1.out, v3.out, max_partitions)))
    ELSE gpt_enumerate(v2.ctx, TRUE, TRUE, v1.out, v2.out, max_partitions))

\* from "Validate primary and backup GPT" on
gpt_validate_both(c, last_block, max_partitions) ==
    Bind(validate_gpt_table(c, u64(PRIMARY_PART_HEADER_LBA),
                            Zeros(SizeofGptHeader)), LAMBDA v1 :
    IF ~v1.ok THEN gpt_try_backup(v1, last_block, max_partitions)
    ELSE gpt_check_backup(v1, max_partitions))

\* "Allocate headers": both are requested before either is tested
gpt_alloc_headers(c, last_block, max_partitions) ==
    Bind(alloc_zero_pool(c), LAMBDA p :
    Bind(alloc_zero_pool(p.ctx), LAMBDA b :
    IF ~p.ok \/ ~b.ok
    THEN Return(Cleanup(b.ctx, 1 + (IF p.ok THEN 1 ELSE 0)
                                 + (IF b.ok THEN 1 ELSE 0)),
                "OUT_OF_MEMORY", <<>>, NotStored)
    ELSE gpt_validate_both(b.ctx, last_block, max_partitions)))

discover_gpt_partitions(c, total, max_partitions) ==
    IF c.bs < SizeofMbr THEN Return(c, "INVALID_PARAM", <<>>, NotStored)
    ELSE
    Bind(alloc_pool(c), LAMBDA m :
    IF ~m.ok THEN Return(m.ctx, "OUT_OF_MEMORY", <<>>, NotStored)
    ELSE
    Bind(read_disk(m.ctx, u64(0), u32(c.bs)), LAMBDA r :
    IF r.status # "SUCCESS"
    THEN Return(Cleanup(r.ctx, 1), "ERROR", <<>>, NotStored)
    ELSE IF ~has_gpt_partition(r.buf)
    THEN Return(Cleanup(r.ctx, 1), "NOT_FOUND", <<>>, NotStored)
    ELSE gpt_alloc_headers(r.ctx, Sub(total, u64(1)), max_partitions)))

-----------------------------------------------------------------------------
(* mbr_parser_aarch64.c (Mbr.c).                                           *)

PARTITION_TYPE_EMPTY == 0

PARTITION_TYPE_EXTENDED == 5

PARTITION_TYPE_EXTENDED_LBA == 15

PARTITION_TYPE_LINUX_EXTENDED == 133

is_extended_partition(type) ==
    \/ type = PARTITION_TYPE_EXTENDED
    \/ type = PARTITION_TYPE_EXTENDED_LBA
    \/ type = PARTITION_TYPE_LINUX_EXTENDED

validate_mbr(mbr) ==
    /\ M_signature(mbr) = MBR_SIGNATURE
    /\ \A i \in 0..(MAX_MBR_PARTITIONS - 1) :
          LET entry == M_partition(mbr, i)
          IN  \/ P_os_indicator(entry) = PARTITION_TYPE_EMPTY
              \/ /\ P_boot_indicator(entry) \in {0, 128}
                 /\ P_size_in_lba(entry) # u32(0)

is_protective_mbr(mbr) ==
    \E i \in 0..(MAX_MBR_PARTITIONS - 1) :
        /\ P_boot_indicator(M_partition(mbr, i)) = 0
        /\ P_os_indicator(M_partition(mbr, i)) = PMBR_GPT_PARTITION
        /\ P_starting_lba(M_partition(mbr, i)) = u32(1)

\* mbr_partition_info_t, without the type name
MbrPartitionInfo(c, start_lba, entry, number) ==
    [scheme |-> "MBR",
     start_lba |-> start_lba,
     size_sectors |-> Zext(P_size_in_lba(entry), 8),
     end_lba |-> Sub(Add(start_lba, Zext(P_size_in_lba(entry), 8)), u64(1)),
     block_size |-> c.bs,
     partition_type |-> P_os_indicator(entry),
     bootable |-> P_boot_indicator(entry) = 128,
     is_extended |-> FALSE,
     partition_number |-> number]

\* more than the partitions any chain of the model's images holds
MaxChain == 6

\* the requests of one kind an environment plans to fail fall among the
\* first MaxRequests of a call
MaxRequests == 16

\* the while loop has no other state than current_ebr_lba and the count: a
\* walk that has made more reads than the device has blocks since it last
\* stored a descriptor has been in one state twice, and with every planned
\* failure behind it, it does not return
Stuck(c, steps) ==
    steps > Len(c.disk) \div c.bs /\ c.nread >= MaxRequests

\* the start of the first slot's partition, when the slot is in use
ebr_logical(c, current_ebr_lba, ebr, partitions, logical_partition_num) ==
    IF /\ P_os_indicator(M_partition(ebr, 0)) # PARTITION_TYPE_EMPTY
       /\ P_size_in_lba(M_partition(ebr, 0)) # u32(0)
    THEN Append(partitions,
             MbrPartitionInfo(c,
                 Add(current_ebr_lba,
                     Zext(P_starting_lba(M_partition(ebr, 0)), 8)),
                 M_partition(ebr, 0), logical_partition_num))
    ELSE partitions

\* "Check for next EBR in chain"
next_ebr_lba(extended_base_lba, ebr) ==
    IF /\ P_os_indicator(M_partition(ebr, 1)) # PARTITION_TYPE_EMPTY
       /\ is_extended_partition(P_os_indicator(M_partition(ebr, 1)))
       /\ P_size_in_lba(M_partition(ebr, 1)) # u32(0)
    THEN Add(extended_base_lba, Zext(P_starting_lba(M_partition(ebr, 1)), 8))
    ELSE u64(0)

\* a walk whose links are relative to the EBR that holds them
RECURSIVE ebr_walk_relative(_, _, _, _, _, _, _)
ebr_walk_relative(c, extended_base_lba, current_ebr_lba, partitions, max_partitions, logical_partition_num, steps) ==
    IF ~(current_ebr_lba # u64(0) /\ Len(partitions) < max_partitions)
    THEN [ctx |-> free_pool(c), status |-> "SUCCESS", partitions |-> partitions]
    ELSE IF Stuck(c, steps)
    THEN [ctx |-> c, status |-> "HANG", partitions |-> partitions]
    ELSE
    Bind(read_disk(c, Mul(current_ebr_lba, BlockSize64(c)), u32(c.bs)), LAMBDA r :
    IF r.status # "SUCCESS"
    THEN [ctx |-> free_pool(r.ctx), status |-> r.status,
          partitions |-> partitions]
    ELSE IF M_signature(r.buf) # MBR_SIGNATURE
    THEN [ctx |-> free_pool(r.ctx), status |-> "SUCCESS",
          partitions |-> partitions]
    ELSE
    Bind(ebr_logical(c, current_ebr_lba, r.buf, partitions,
                     logical_partition_num), LAMBDA partitions1 :
    Bind(next_ebr_lba(current_ebr_lba, r.buf), LAMBDA next :
    ebr_walk_relative(r.ctx, extended_base_lba, next, partitions1,
             max_partitions,
             logical_partition_num + Len(partitions1) - Len(partitions),
             IF Len(partitions1) > Len(partitions) THEN 0 ELSE steps + 1))))

\* the while loop of process_extended_partition; ebr is held, steps counts
\* the reads since a descriptor was last stored
RECURSIVE ebr_walk(_, _, _, _, _, _, _)
ebr_walk(c, extended_base_lba, current_ebr_lba, partitions, max_partitions, logical_partition_num, steps) ==
    IF ~(current_ebr_lba # u64(0) /\ Len(partitions) < max_partitions)
    THEN [ctx |-> free_pool(c), status |-> "SUCCESS", partitions |-> partitions]
    ELSE IF Stuck(c, steps)
    THEN [ctx |-> c, status |-> "HANG", partitions |-> partitions]
    ELSE
    Bind(read_disk(c, Mul(current_ebr_lba, BlockSize64(c)), u32(c.bs)), LAMBDA r :
    IF r.status # "SUCCESS"
    THEN [ctx |-> free_pool(r.ctx), status |-> r.status,
          partitions |-> partitions]
    ELSE IF M_signature(r.buf) # MBR_SIGNATURE
    THEN [ctx |-> free_pool(r.ctx), status |-> "SUCCESS",
          partitions |-> partitions]
    ELSE
    Bind(ebr_logical(c, current_ebr_lba, r.buf, partitions,
                     logical_partition_num), LAMBDA partitions1 :
    Bind(next_ebr_lba(extended_base_lba, r.buf), LAMBDA next :
    ebr_walk(r.ctx, extended_base_lba, next, partitions1, max_partitions,
             logical_partition_num + Len(partitions1) - Len(partitions),
             IF Len(partitions1) > Len(partitions) THEN 0 ELSE steps + 1))))

\* a walk that does not stop at the caller's maximum
process_extended_partition_unbounded(c, extended_base_lba, ebr_lba, partitions, max_partitions) ==
    Bind(alloc_pool(c), LAMBDA a :
    IF ~a.ok
    THEN [ctx |-> a.ctx, status |-> "OUT_OF_MEMORY", partitions |-> partitions]
    ELSE ebr_walk(a.ctx, extended_base_lba, ebr_lba, partitions,
                  max_partitions + MaxChain, 5, 0))

\* a walk that numbers the first logical partition 4
process_extended_partition_from4(c, extended_base_lba, ebr_lba, partitions, max_partitions) ==
    Bind(alloc_pool(c), LAMBDA a :
    IF ~a.ok
    THEN [ctx |-> a.ctx, status |-> "OUT_OF_MEMORY", partitions |-> partitions]
    ELSE ebr_walk(a.ctx, extended_base_lba, ebr_lba, partitions,
                  max_partitions, 4, 0))

process_extended_partition(c, extended_base_lba, ebr_lba, partitions, max_partitions) ==
    Bind(alloc_pool(c), LAMBDA a :
    IF ~a.ok
    THEN [ctx |-> a.ctx, status |-> "OUT_OF_MEMORY", partitions |-> partitions]
    ELSE ebr_walk(a.ctx, extended_base_lba, ebr_lba, partitions,
                  max_partitions, 5, 0))

\* the loop over the four primary slots; mbr is held
RECURSIVE mbr_primary_loop(_, _, _, _, _)
mbr_primary_loop(c, mbr, max_partitions, i, partitions) ==
    IF ~(i < MAX_MBR_PARTITIONS /\ Len(partitions) < max_partitions)
    THEN [ctx |-> c, status |-> "SUCCESS", partitions |-> partitions]
    ELSE IF \/ P_os_indicator(M_partition(mbr, i)) = PARTITION_TYPE_EMPTY
            \/ P_size_in_lba(M_partition(mbr, i)) = u32(0)
    THEN mbr_primary_loop(c, mbr, max_partitions, i + 1, partitions)
    ELSE IF is_extended_partition(P_os_indicator(M_partition(mbr, i)))
    THEN Bind(process_extended_partition(c,
                  Zext(P_starting_lba(M_partition(mbr, i)), 8),
                  Zext(P_starting_lba(M_partition(mbr, i)), 8),
                  partitions, max_partitions), LAMBDA x :
         IF x.status = "HANG" THEN x
         \* "Continue even if extended partition fails"
         ELSE mbr_primary_loop(x.ctx, mbr, max_partitions, i + 1,
                               x.partitions))
    ELSE mbr_primary_loop(c, mbr, max_partitions, i + 1,
             Append(partitions,
                    MbrPartitionInfo(c,
                        Zext(P_starting_lba(M_partition(mbr, i)), 8),
                        M_partition(mbr, i), i + 1)))

\* dev, partitions and num_partitions are taken to be non-null
discover_mbr_partitions(c, max_partitions) ==
    IF max_partitions = 0 THEN Return(c, "INVALID_PARAM", <<>>, NotStored)
    ELSE IF c.bs < SizeofMbr THEN Return(c, "INVALID_PARAM", <<>>, NotStored)
    ELSE
    Bind(alloc_pool(c), LAMBDA m :
    IF ~m.ok THEN Return(m.ctx, "OUT_OF_MEMORY", <<>>, NotStored)
    ELSE
    Bind(read_disk(m.ctx, u64(0), u32(c.bs)), LAMBDA r :
    IF r.status # "SUCCESS"
    THEN Return(Cleanup(r.ctx, 1), r.status, <<>>, NotStored)
    ELSE IF ~validate_mbr(r.buf)
    THEN Return(Cleanup(r.ctx, 1), "NOT_FOUND", <<>>, NotStored)
    ELSE IF is_protective_mbr(r.buf)
    THEN Return(Cleanup(r.ctx, 1), "NOT_FOUND", <<>>, NotStored)
    ELSE
    Bind(mbr_primary_loop(r.ctx, r.buf, max_partitions, 0, <<>>), LAMBDA l :
    IF l.status = "HANG"
    THEN Return(l.ctx, "HANG", l.partitions, NotStored)
    ELSE IF Len(l.partitions) > 0
    THEN Return(Cleanup(l.ctx, 1), "SUCCESS", l.partitions, Len(l.partitions))
    ELSE Return(Cleanup(l.ctx, 1), "NOT_FOUND", l.partitions, NotStored))))

-----------------------------------------------------------------------------
(* partition_aarch64.c: detection behind discover_partitions.  Its device  *)
(* interface counts blocks; its allocator is simple_malloc.                *)

\* block_device_t.read_blocks(dev, lba, count, buffer)
read_blocks(c, lba, count) ==
    read_disk(c, Mul(lba, BlockSize64(c)), Mul(count, u32(c.bs)))

\* block_device_t.write_blocks(dev, lba, count, buffer)
write_blocks(c, lba, count, buffer) ==
    write_disk(c, Mul(lba, BlockSize64(c)), Mul(count, u32(c.bs)), buffer)

simple_malloc(c) == alloc_pool(c)

simple_free(c) == free_pool(c)

\* u8 sector_buf[SECTOR_SIZE] after one block was read into it: stack holds
\* what the array held before (it is not initialised)
SectorBuf(c, stack, data) ==
    SetBytes(stack, 0, SubSeq(data, 1, IF c.bs < SECTOR_SIZE THEN c.bs
                                       ELSE SECTOR_SIZE))

\* partition_info_t of a GPT entry, without the converted name
GptInfo(c, entry) ==
    [scheme |-> "GPT",
     start_lba |-> E_starting_lba(entry),
     end_lba |-> E_ending_lba(entry),
     size_sectors |-> Add(Sub(E_ending_lba(entry), E_starting_lba(entry)), u64(1)),
     block_size |-> c.bs,
     type_guid |-> E_partition_type_guid(entry),
     unique_guid |-> E_unique_guid(entry),
     bootable |-> BitSet(E_attributes(entry)[1], 4)]

RECURSIVE detect_gpt_loop(_, _, _, _, _, _)
detect_gpt_loop(c, header, entries, max_partitions, i, partitions) ==
    IF ~(i < WalkCount(header) /\ Len(partitions) < max_partitions)
    THEN partitions
    ELSE IF E_partition_type_guid(EntryAt(header, entries, i)) = Zeros(16)
    THEN detect_gpt_loop(c, header, entries, max_partitions, i + 1, partitions)
    ELSE detect_gpt_loop(c, header, entries, max_partitions, i + 1,
             Append(partitions, GptInfo(c, EntryAt(header, entries, i))))

\* sectors_needed = (entries_size + SECTOR_SIZE - 1) / SECTOR_SIZE, in u32
sectors_needed(entries_size) ==
    Bind(Add(entries_size, u32(SECTOR_SIZE - 1)), LAMBDA sum :
        IF IsSmall(sum) THEN u32(Val(sum) \div SECTOR_SIZE)
        ELSE Ones(4))

\* detect_gpt_partitions from "Read partition entries" on; gpt_hdr is the
\* header whose checksum matched
detect_gpt_entries(c, gpt_hdr, max_partitions) ==
    Bind(simple_malloc(c), LAMBDA a :
    IF ~a.ok THEN Return(a.ctx, "OUT_OF_RESOURCES", <<>>, NotStored)
    ELSE
    Bind(read_blocks(a.ctx, H_partition_entry_lba(gpt_hdr),
                     sectors_needed(EntriesSize(gpt_hdr))), LAMBDA e :
    IF e.status # "SUCCESS"
    THEN Return(simple_free(e.ctx), "ERROR", <<>>, NotStored)
    ELSE IF Len(e.buf) # Val(EntriesSize(gpt_hdr))
    THEN Return(e.ctx, "UNDEFINED", <<>>, NotStored)
    ELSE
    Bind(detect_gpt_loop(e.ctx, gpt_hdr, e.buf, max_partitions, 0, <<>>),
         LAMBDA partitions :
    Return(simple_free(e.ctx), "SUCCESS", partitions, Len(partitions)))))

\* detect_gpt_partitions from "Validate CRC32" on; gpt_hdr is sector_buf
detect_gpt_header(c, gpt_hdr, max_partitions) ==
    Bind(SetBytes(gpt_hdr, 16, Zeros(4)), LAMBDA zeroed :
    IF H_header_crc32(gpt_hdr)
         # calculate_crc32_short(zeroed, Val(H_header_size(gpt_hdr)))
    THEN Return(c, "ERROR", <<>>, NotStored)
    ELSE detect_gpt_entries(c, zeroed, max_partitions))

\* a block larger than sector_buf, a header_size beyond it, or an entry
\* array that is no whole number of blocks makes the call write or read
\* outside its buffers
detect_gpt_partitions(c, stack, max_partitions) ==
    IF c.bs > SECTOR_SIZE THEN Return(c, "UNDEFINED", <<>>, NotStored)
    ELSE
    Bind(read_blocks(c, u64(1), u32(1)), LAMBDA r :
    IF r.status # "SUCCESS" THEN Return(r.ctx, "ERROR", <<>>, NotStored)
    ELSE
    Bind(SectorBuf(c, stack, r.buf), LAMBDA gpt_hdr :
    IF H_signature(gpt_hdr) # GPT_HEADER_SIGNATURE
    THEN Return(r.ctx, "NOT_FOUND", <<>>, NotStored)
    ELSE IF Gt(H_header_size(gpt_hdr), u32(SECTOR_SIZE))
    THEN Return(r.ctx, "UNDEFINED", <<>>, NotStored)
    ELSE detect_gpt_header(r.ctx, gpt_hdr, max_partitions)))

\* partition_info_t of an MBR slot, without the name; end_lba is computed in
\* 32 bits and then widened
MbrInfo(c, entry) ==
    [scheme |-> "MBR",
     start_lba |-> Zext(P_starting_lba(entry), 8),
     end_lba |-> Zext(Sub(Add(P_starting_lba(entry), P_size_in_lba(entry)),
                          u32(1)), 8),
     size_sectors |-> Zext(P_size_in_lba(entry), 8),
     block_size |-> c.bs,
     bootable |-> BitSet(P_boot_indicator(entry), 128),
     mbr_type |-> P_os_indicator(entry)]

RECURSIVE detect_mbr_loop(_, _, _, _, _)
detect_mbr_loop(c, mbr, max_partitions, i, partitions) ==
    IF ~(i < 4 /\ Len(partitions) < max_partitions) THEN partitions
    ELSE IF \/ P_os_indicator(M_partition(mbr, i)) = 0
            \/ P_size_in_lba(M_partition(mbr, i)) = u32(0)
    THEN detect_mbr_loop(c, mbr, max_partitions, i + 1, partitions)
    ELSE detect_mbr_loop(c, mbr, max_partitions, i + 1,
             Append(partitions, MbrInfo(c, M_partition(mbr, i))))

detect_mbr_partitions(c, stack, max_partitions) ==
    IF c.bs > SECTOR_SIZE THEN Return(c, "UNDEFINED", <<>>, NotStored)
    ELSE
    Bind(read_blocks(c, u64(0), u32(1)), LAMBDA r :
    IF r.status # "SUCCESS" THEN Return(r.ctx, "ERROR", <<>>, NotStored)
    ELSE
    Bind(SectorBuf(c, stack, r.buf), LAMBDA mbr :
    IF M_signature(mbr) # MBR_SIGNATURE
    THEN Return(r.ctx, "NOT_FOUND", <<>>, NotStored)
    ELSE
    Bind(detect_mbr_loop(r.ctx, mbr, max_partitions, 0, <<>>),
         LAMBDA partitions :
    Return(r.ctx, "SUCCESS", partitions, Len(partitions)))))

\* the context detect_mbr_partitions starts from, after a call returned g
After(c, g) ==
    [c EXCEPT !.io = g.io, !.live = g.live, !.nalloc = g.nalloc,
              !.nread = g.nread]

\* the result of detect_gpt_partitions is kept beside the final one
discover_partitions(c, stack, max_partitions) ==
    Bind(detect_gpt_partitions(c, stack, max_partitions), LAMBDA g :
    IF g.status = "SUCCESS"
    THEN [g EXCEPT !.tried = <<"GPT">>, !.gpt = "SUCCESS"]
    ELSE IF g.status = "UNDEFINED"
    THEN [g EXCEPT !.tried = <<"GPT">>, !.gpt = "UNDEFINED"]
    ELSE
    Bind(detect_mbr_partitions(After(c, g), stack, max_partitions), LAMBDA m :
    IF m.status = "SUCCESS" \/ m.status = "UNDEFINED"
    THEN [m EXCEPT !.tried = <<"GPT", "MBR">>, !.gpt = g.status]
    ELSE [m EXCEPT !.status = "NOT_FOUND",
                   !.tried = <<"GPT", "MBR">>, !.gpt = g.status]))

-----------------------------------------------------------------------------
(* partition_aarch64.c: the partition device.  Its parent is reached       *)
(* through function pointers; the model records what the parent is asked.  *)

\* parent->read_blocks, parent->write_blocks: a device of total blocks
parent_blocks(total, op, lba, count) ==
    [status |-> IF /\ Le(lba, u64(total))
                   /\ Le(Zext(count, 8), Sub(u64(total), lba))
                THEN "SUCCESS" ELSE DEVICE_ERROR,
     delegated |-> <<[op |-> op, lba |-> lba, count |-> count]>>]

partition_read_blocks(p, total, lba, count) ==
    LET parent_lba == Add(p.info.start_lba, lba)
    IN  IF Gt(Sub(Add(parent_lba, Zext(count, 8)), u64(1)), p.info.end_lba)
        THEN [status |-> "INVALID_PARAM", delegated |-> <<>>]
        ELSE parent_blocks(total, "read", parent_lba, count)

partition_write_blocks(p, total, lba, count) ==
    LET parent_lba == Add(p.info.start_lba, lba)
    IN  IF Gt(Sub(Add(parent_lba, Zext(count, 8)), u64(1)), p.info.end_lba)
        THEN [status |-> "INVALID_PARAM", delegated |-> <<>>]
        ELSE parent_blocks(total, "write", parent_lba, count)

partition_flush(p) ==
    [status |-> "SUCCESS",
     delegated |-> <<[op |-> "flush", lba |-> u64(0), count |-> u32(0)]>>]

\* NULL is an unopened device
create_partition_device(c, info) ==
    LET a == simple_malloc(c)
    IN  IF ~a.ok THEN [open |-> FALSE]
        ELSE [open |-> TRUE,
              info |-> info,
              total_sectors |-> info.size_sectors,
              block_size |-> info.block_size]

-----------------------------------------------------------------------------
(* Device images.                                                          *)

\* the number of blocks of the devices of the model
DiskBlocks == 8

\* a 16-byte MBR slot
MkSlot(boot, type, start, size) ==
    <<boot, 0, 0, 0, type, 0, 0, 0>> \o u32(start) \o u32(size)

EmptySlot == Zeros(16)

\* a master_boot_record_t from its four slots and its signature
MkMbr(slots, signature) ==
    Zeros(446) \o slots[1] \o slots[2] \o slots[3] \o slots[4] \o signature

ProtectiveMbr ==
    MkMbr(<<MkSlot(0, PMBR_GPT_PARTITION, 1, DiskBlocks - 1),
            EmptySlot, EmptySlot, EmptySlot>>, MBR_SIGNATURE)

\* a gpt_partition_entry_t; type 0 is the unused GUID
MkEntry(type, start, end, attributes) ==
    LE(type, 16) \o LE(type + 16, 16) \o u64(start) \o u64(end)
        \o u64(attributes) \o Zeros(72)

\* a header block with its header checksum still zero
HeaderFields(my, alt, first, last, entry_lba, num, array_crc) ==
    GPT_HEADER_SIGNATURE \o <<0, 0, 1, 0>> \o u32(SizeofGptHeader)
        \o Zeros(4) \o Zeros(4) \o u64(my) \o u64(alt) \o u64(first)
        \o u64(last) \o LE(7, 16) \o u64(entry_lba) \o u32(num)
        \o u32(SizeofGptEntry) \o array_crc
        \o Zeros(SECTOR_SIZE - SizeofGptHeader)

\* a header block with both checksums in place
MkHeaderBlock(my, alt, first, last, entry_lba, num, entries) ==
    set_header_crc(u32(SizeofGptHeader),
        HeaderFields(my, alt, first, last, entry_lba, num,
                     calculate_crc32(entries, Len(entries))))

\* the same, sealed with the checksum partition_aarch64.c computes
MkHeaderBlockShort(my, alt, first, last, entry_lba, num, entries) ==
    LET raw == HeaderFields(my, alt, first, last, entry_lba, num,
                            calculate_crc32_short(entries, Len(entries)))
    IN  SetBytes(raw, 16, calculate_crc32_short(raw, SizeofGptHeader))

\* the usable range of the GPT images: the blocks between the two arrays
FirstUsable == PRIMARY_PART_HEADER_LBA + 2

LastUsable == DiskBlocks - 3

\* a GPT device: PMBR, primary header at 1 with its array at 2, backup array
\* after the usable range and backup header in the last block; palt and balt
\* are the alternate_lba the primary and the backup declare
GptDisk(entries, palt, balt) ==
    ProtectiveMbr
    \o MkHeaderBlock(1, palt, FirstUsable, LastUsable, 2, 4, entries)
    \o entries
    \o Zeros((DiskBlocks - 5) * SECTOR_SIZE)
    \o entries
    \o MkHeaderBlock(DiskBlocks - 1, balt, FirstUsable, LastUsable,
                     DiskBlocks - 2, 4, entries)

GptDiskShort(entries) ==
    ProtectiveMbr
    \o MkHeaderBlockShort(1, DiskBlocks - 1, FirstUsable, LastUsable, 2, 4, entries)
    \o entries
    \o Zeros((DiskBlocks - 5) * SECTOR_SIZE)
    \o entries
    \o MkHeaderBlockShort(DiskBlocks - 1, 1, FirstUsable, LastUsable,
                          DiskBlocks - 2, 4, entries)

\* one byte of the device inverted
FlipByte(d, off) == SetBytes(d, off, <<255 - d[off + 1]>>)

\* the header in block lba with the bytes at off replaced and its checksum
\* computed again
Reseal(d, lba, off, val) ==
    SetBytes(d, lba * SECTOR_SIZE,
        set_header_crc(u32(SizeofGptHeader),
            SetBytes(Bytes(d, lba * SECTOR_SIZE, SECTOR_SIZE), off, val)))

\* block 0 of an MBR device: the slots of prim hold primary partitions, slot
\* x (0 for none) an extended partition of type xtype that starts at block 2
MbrSlot(i, x, xtype, prim) ==
    IF i = x THEN MkSlot(0, xtype, 2, DiskBlocks - 3)
    ELSE IF i \in prim THEN MkSlot(IF i = 1 THEN 128 ELSE 0, 131, DiskBlocks - 1, 1)
    ELSE EmptySlot

\* the j-th of k EBR blocks: a logical partition in the first slot, the link
\* to the next EBR, relative to the extended partition, in the second
EbrBlock(j, k) ==
    IF j > k THEN Zeros(SECTOR_SIZE)
    ELSE MkMbr(<<MkSlot(0, 131, 1, 1),
                 IF j < k THEN MkSlot(0, PARTITION_TYPE_EXTENDED, j, 1)
                 ELSE EmptySlot,
                 EmptySlot, EmptySlot>>, MBR_SIGNATURE)

RECURSIVE EbrBlocks(_, _)
EbrBlocks(j, k) ==
    IF j > DiskBlocks - 2 THEN <<>>
    ELSE EbrBlock(j, k) \o EbrBlocks(j + 1, k)

MbrDisk(x, xtype, prim, k) ==
    MkMbr([i \in 1..4 |-> MbrSlot(i, x, xtype, prim)], MBR_SIGNATURE)
    \o Zeros(SECTOR_SIZE)
    \o EbrBlocks(1, k)

-----------------------------------------------------------------------------
(* The devices and environments the model starts from.                     *)

\* the entry of slot number slot (1..4) of shape k
Shape(k, slot) ==
    CASE k = 0 -> Zeros(SizeofGptEntry)              \* unused
      [] k = 1 -> MkEntry(slot, 3, 3, 0)
      [] k = 2 -> MkEntry(slot, 4, 4, 0)
      [] k = 3 -> MkEntry(slot, 3, 4, 0)
      [] k = 4 -> MkEntry(slot, 4, 5, 0)
      [] k = 5 -> MkEntry(slot, 5, 5, 0)
      [] k = 6 -> MkEntry(slot, 4, 6, 0)             \* ends after last usable
      [] k = 7 -> MkEntry(slot, 5, 4, 0)             \* starts after its end
      [] k = 8 -> MkEntry(slot, 5, 5, 2)             \* attribute bit 1
      [] k = 10 -> MkEntry(slot, 4, 6, 2)            \* bit 1, ends after last usable
      [] OTHER -> MkEntry(slot, 3, 3, 4)             \* attribute bit 2

EntryArray(a) == Shape(a[1], 1) \o Shape(a[2], 2) \o Shape(a[3], 3) \o Shape(a[4], 4)

\* an allocator that returns memory and a device that answers
RealEnv == [alloc |-> {}, read |-> {}, write |-> {}, stack |-> "zero"]

\* the allocator stubs as written: every request returns NULL
StubEnv == [RealEnv EXCEPT !.alloc = 1..MaxRequests]

\* one request fails
FaultEnvs ==
    {[RealEnv EXCEPT !.alloc = {i}] : i \in 1..6}
    \cup {[RealEnv EXCEPT !.read = {i}] : i \in 1..6}
    \cup {[RealEnv EXCEPT !.write = {i}] : i \in 1..2}

\* the shapes of slots 1 and 2, and of slot 3, of the GPT images
ShapesA == {0, 1, 3, 4, 6, 8}

ShapesB == {0, 5, 6}

GptArrays == {<<a, b, c, 0>> : a \in ShapesA, b \in ShapesA, c \in ShapesB}

\* byte offsets whose inversion damages: the primary header, the backup
\* header, the primary array, the backup array, the PMBR slot
FlipPrimary == 1 * SECTOR_SIZE + 40

FlipBackup == (DiskBlocks - 1) * SECTOR_SIZE + 40

FlipPrimaryArray == 2 * SECTOR_SIZE + 32

FlipBackupArray == (DiskBlocks - 2) * SECTOR_SIZE + 32

FlipPmbr == 446 + 4

Damages == {{}, {FlipPrimary}, {FlipBackup}, {FlipPrimary, FlipBackup},
            {FlipPrimaryArray}, {FlipBackupArray}, {FlipPmbr},
            {FlipPrimaryArray, FlipBackup}}

RECURSIVE Damage(_, _)
Damage(d, flips) ==
    IF flips = {} THEN d
    ELSE LET f == CHOOSE x \in flips : TRUE
         IN  Damage(FlipByte(d, f), flips \ {f})

Device(d, bs, total, e) == [disk |-> d, bs |-> bs, total |-> total, env |-> e]

SampleGpt == GptDisk(EntryArray(<<1, 4, 0, 0>>), DiskBlocks - 1, 1)

\* intact GPT devices
GptDevices ==
    {Device(GptDisk(EntryArray(a), DiskBlocks - 1, 1), SECTOR_SIZE, DiskBlocks,
            RealEnv) : a \in GptArrays}

\* damaged GPT devices; a copy may name another block than its twin's
DamagedGptDevices ==
    {Device(Damage(GptDisk(EntryArray(<<1, 4, 0, 0>>), palt, balt), f),
            SECTOR_SIZE, DiskBlocks, RealEnv) :
        f \in Damages, palt \in {DiskBlocks - 1, 4}, balt \in {1, 3}}

\* a primary header with 2 entries of 2^31 + 128 bytes, whose array checksum
\* is that of the first 256 bytes of the array
OverflowGpt ==
    Reseal(Reseal(Reseal(SampleGpt, 1, 84, <<128, 0, 0, 128>>), 1, 80, u32(2)),
           1, 88, calculate_crc32(Bytes(SampleGpt, 2 * SECTOR_SIZE, 256), 256))

\* an array with an entry that has attribute bit 1 and lies out of range;
\* primary headers that carry a matching checksum and name as their twin
\* the block of their own entry array or the block after the usable range;
\* or carry one wrong field: the self address, a first usable block after
\* the last, an entry count and size whose product does not fit 32 bits,
\* the entry size (with the count doubled), the signature
CraftedGptDevices ==
    {Device(d, SECTOR_SIZE, DiskBlocks, RealEnv) :
        d \in {GptDisk(EntryArray(<<1, 10, 0, 0>>), DiskBlocks - 1, 1),
               GptDisk(EntryArray(<<1, 4, 0, 0>>), 2, 1),
               GptDisk(EntryArray(<<1, 4, 0, 0>>), DiskBlocks - 2, 1),
               Reseal(SampleGpt, 1, 24, u64(2)),
               Reseal(SampleGpt, 1, 40, u64(LastUsable + 1)),
               OverflowGpt,
               Reseal(Reseal(SampleGpt, 1, 84, u32(64)), 1, 80, u32(8)),
               Reseal(SampleGpt, 1, 0, <<69, 70, 73, 32, 80, 65, 82, 85>>)}}

\* GPT devices that partition_aarch64.c accepts
ShortGptDevices ==
    {Device(GptDiskShort(EntryArray(a)), SECTOR_SIZE, DiskBlocks, RealEnv) :
        a \in {<<1, 4, 0, 0>>, <<3, 4, 0, 0>>, <<6, 1, 0, 0>>, <<0, 0, 0, 0>>,
               <<8, 0, 1, 0>>, <<7, 1, 0, 0>>}}

\* MBR devices: an extended partition in slot x (0: none) with a chain of
\* k logical partitions, primary partitions in the slots of prim
MbrCases ==
    {[x |-> x, prim |-> prim \ {x}, k |-> k] :
        x \in {1, 3}, prim \in SUBSET {2, 4} \cup {{1, 2, 3, 4}}, k \in 0..3}
    \cup {[x |-> 0, prim |-> prim, k |-> 0] : prim \in {{}, {2}, {1, 2, 3, 4}}}

MbrImage(m) ==
    MbrDisk(m.x, IF m.x = 1 THEN PARTITION_TYPE_EXTENDED_LBA
                 ELSE PARTITION_TYPE_EXTENDED, m.prim, m.k)

MbrImages == [m \in MbrCases |-> MbrImage(m)]

MbrDevices ==
    {Device(MbrImages[m], SECTOR_SIZE, DiskBlocks, RealEnv) : m \in MbrCases}

\* an EBR block: the logical partition's slot and the link's slot
Ebr(logical, next) ==
    MkMbr(<<logical, next, EmptySlot, EmptySlot>>, MBR_SIGNATURE)

NoEbr == Zeros(SECTOR_SIZE)

LinkTo(start) == MkSlot(0, PARTITION_TYPE_EXTENDED, start, 1)

Logical == MkSlot(0, 131, 1, 1)

RECURSIVE Flatten(_)
Flatten(blocks) ==
    IF blocks = <<>> THEN <<>> ELSE Head(blocks) \o Flatten(Tail(blocks))

\* an MBR device of DiskBlocks blocks: block 0 holds slots, the blocks from
\* block 1 on are those of blocks, the rest is zero
MbrWith(slots, blocks) ==
    MkMbr(slots, MBR_SIGNATURE) \o Flatten(blocks)
        \o Zeros((DiskBlocks - 1 - Len(blocks)) * SECTOR_SIZE)

ExtendedAt(start) == MkSlot(0, PARTITION_TYPE_EXTENDED, start, DiskBlocks - start)

\* EBR chains that lead back: an EBR without a logical partition whose link
\* has start 0; the same with a logical partition; two EBRs without logical
\* partitions, the second linking to the first; a chain of three whose last
\* EBR links to the second.  Two extended partitions in one table, with
\* chains of two and of one.  A chain whose second EBR has no logical
\* partition, in a table whose first slot has blocks and type zero.
LoopMbrImages ==
    {MbrWith(<<ExtendedAt(2), EmptySlot, EmptySlot, EmptySlot>>,
             <<NoEbr, Ebr(EmptySlot, LinkTo(0))>>),
     MbrWith(<<ExtendedAt(2), EmptySlot, EmptySlot, EmptySlot>>,
             <<NoEbr, Ebr(Logical, LinkTo(0))>>),
     MbrWith(<<EmptySlot, ExtendedAt(2), EmptySlot, EmptySlot>>,
             <<NoEbr, Ebr(EmptySlot, LinkTo(2)), NoEbr, Ebr(EmptySlot, LinkTo(0))>>),
     MbrWith(<<ExtendedAt(2), EmptySlot, EmptySlot, EmptySlot>>,
             <<NoEbr, Ebr(Logical, LinkTo(2)), NoEbr, Ebr(Logical, LinkTo(3)),
               Ebr(Logical, LinkTo(2))>>)}

TwoChainImage ==
    MbrWith(<<ExtendedAt(2), MkSlot(0, 131, 1, 1),
              MkSlot(0, PARTITION_TYPE_EXTENDED_LBA, 5, 2), EmptySlot>>,
            <<NoEbr, Ebr(Logical, LinkTo(1)), Ebr(Logical, EmptySlot), NoEbr,
              Ebr(Logical, EmptySlot)>>)

GapChainImage ==
    MbrWith(<<MkSlot(0, 0, 6, 1), MkSlot(0, 131, 1, 1), ExtendedAt(2), EmptySlot>>,
            <<NoEbr, Ebr(Logical, LinkTo(2)), NoEbr, Ebr(EmptySlot, LinkTo(3)),
              Ebr(Logical, EmptySlot)>>)

\* a table whose first slot has a type and no blocks
ZeroCountImage ==
    MbrWith(<<MkSlot(0, 131, 6, 0), MkSlot(0, 131, 1, 1), EmptySlot, EmptySlot>>,
            <<>>)

CraftedMbrDevices ==
    {Device(d, SECTOR_SIZE, DiskBlocks, RealEnv) :
        d \in LoopMbrImages \cup {TwoChainImage, GapChainImage, ZeroCountImage}}

\* devices of an environment in which requests fail
FaultDevices ==
    {Device(d, SECTOR_SIZE, DiskBlocks, e) :
        d \in {SampleGpt, Damage(SampleGpt, {FlipPrimary}),
               Damage(SampleGpt, {FlipBackup}),
               MbrDisk(1, PARTITION_TYPE_EXTENDED, {2}, 2)},
        e \in FaultEnvs \cup {StubEnv}}

\* devices of another geometry: small blocks, large blocks, no blocks
OddDevices ==
    {Device(SubSeq(SampleGpt, 1, DiskBlocks * 256), 256, DiskBlocks, RealEnv),
     Device(SubSeq(MbrDisk(0, 0, {1}, 0), 1, DiskBlocks * 256), 256,
            DiskBlocks, RealEnv),
     Device(SampleGpt \o Zeros(DiskBlocks * SECTOR_SIZE), 2 * SECTOR_SIZE,
            DiskBlocks, RealEnv),
     Device(<<>>, SECTOR_SIZE, 0, RealEnv),
     Device(<<>>, SECTOR_SIZE, 0, StubEnv)}

Devices ==
    GptDevices \cup DamagedGptDevices \cup CraftedGptDevices
    \cup ShortGptDevices \cup MbrDevices \cup CraftedMbrDevices
    \cup FaultDevices \cup OddDevices

NoCall == [fn |-> "none", max |-> 0]

NoReturn == [status |-> "none"]

NoPart == [open |-> FALSE]

Init ==
    \E dev \in Devices :
        /\ disk = dev.disk
        /\ block_size = dev.bs
        /\ total_sectors = dev.total
        /\ env = dev.env
        /\ phase = "idle"
        /\ call = NoCall
        /\ pre = <<>>
        /\ ret = NoReturn
        /\ part = NoPart

-----------------------------------------------------------------------------
(* The calls.                                                              *)

\* the maximum counts a caller passes
MaxChoices == {2, 8}

\* the blocks a caller asks validate_gpt_table about
LbaChoices == {PRIMARY_PART_HEADER_LBA, FirstUsable, DiskBlocks - 1}

Stack(e) ==
    IF e.stack = "zero" THEN Zeros(SECTOR_SIZE)
    ELSE SetBytes(Zeros(SECTOR_SIZE), 510, MBR_SIGNATURE)

Entered == NewCtx(disk, block_size, [alloc |-> env.alloc, read |-> env.read,
                                     write |-> env.write])

\* a call returned r: the device holds what the call left
Returned(fn, max, r, header) ==
    /\ phase' = "done"
    /\ call' = [fn |-> fn, max |-> max]
    /\ pre' = disk
    /\ disk' = r.disk
    /\ ret' = [status |-> r.status, partitions |-> r.partitions,
               count |-> r.count, io |-> r.io, live |-> r.live,
               tried |-> r.tried, gpt |-> r.gpt, header |-> header]
    /\ UNCHANGED <<block_size, total_sectors, env, part>>

DiscoverGpt(max) ==
    /\ phase = "idle"
    /\ Returned("discover_gpt_partitions", max,
                discover_gpt_partitions(Entered, u64(total_sectors), max), <<>>)

DiscoverMbr(max) ==
    /\ phase = "idle"
    /\ Returned("discover_mbr_partitions", max,
                discover_mbr_partitions(Entered, max), <<>>)

DiscoverPartitions(max) ==
    /\ phase = "idle"
    /\ Returned("discover_partitions", max,
                discover_partitions(Entered, Stack(env), max), <<>>)

\* validate_gpt_table(dev, lba, header) with a zeroed header buffer; max
\* holds lba
Validated(lba, v) ==
    Returned("validate_gpt_table", lba,
             Return(v.ctx, IF v.ok THEN "TRUE" ELSE "FALSE", <<>>, NotStored),
             v.out)

ValidateGptTable(lba) ==
    /\ phase = "idle"
    /\ Validated(lba, validate_gpt_table(Entered, u64(lba),
                                         Zeros(SizeofGptHeader)))

\* restore_gpt_table(dev, header) with the header of a copy that validates
\* at lba, as its caller passes it; max holds lba
Restored(lba, source, rs) ==
    Returned("restore_gpt_table", lba,
             Return(rs.ctx, IF rs.ok THEN "TRUE" ELSE "FALSE", <<>>, NotStored),
             source)

RestoreFrom(lba, v) ==
    /\ v.ok
    /\ Restored(lba, v.out, restore_gpt_table(Entered, v.out))

RestoreGptTable(lba) ==
    /\ phase = "idle"
    /\ RestoreFrom(lba, validate_gpt_table(NewCtx(disk, block_size, NoFaults),
                                           u64(lba), Zeros(SizeofGptHeader)))

\* the caller is done with the result
Forget ==
    /\ phase = "done"
    /\ phase' = "idle"
    /\ call' = NoCall
    /\ pre' = <<>>
    /\ ret' = NoReturn
    /\ UNCHANGED <<disk, block_size, total_sectors, env, part>>

Next ==
    \/ \E max \in MaxChoices : DiscoverGpt(max)
    \/ \E max \in MaxChoices \cup {0} : DiscoverMbr(max)
    \/ \E max \in MaxChoices : DiscoverPartitions(max)
    \/ \E lba \in LbaChoices : ValidateGptTable(lba)
    \/ \E lba \in LbaChoices : RestoreGptTable(lba)
    \/ Forget

Spec == Init /\ [][Next]_vars

-----------------------------------------------------------------------------
(* The partition device on its own.                                        *)

\* 2^64 - n
FromTop(n) == Sub(Zeros(8), u64(n))

Info(start, end) ==
    [start_lba |-> start, end_lba |-> end,
     size_sectors |-> Add(Sub(end, start), u64(1)), block_size |-> SECTOR_SIZE]

\* the descriptors a partition device is created from
PartInfos ==
    {Info(u64(5), u64(6)), Info(u64(0), u64(3)), Info(u64(1), u64(1)),
     Info(FromTop(4), FromTop(1)), Info(u64(0), FromTop(1))}

\* the addresses and counts it is asked for
LbaSamples ==
    {u64(0), u64(1), u64(2), u64(4), FromTop(1), FromTop(3), FromTop(5),
     FromTop(6)}

CountSamples == {u32(0), u32(1), u32(2), u32(5), Ones(4)}

InitPart ==
    /\ disk = <<>>
    /\ block_size = SECTOR_SIZE
    /\ total_sectors = DiskBlocks
    /\ env \in {RealEnv, StubEnv}
    /\ phase = "idle"
    /\ call = NoCall
    /\ pre = <<>>
    /\ ret = NoReturn
    /\ part = NoPart

\* a call on the partition device returned r
PartReturned(fn, lba, count, r) ==
    /\ phase' = "done"
    /\ call' = [fn |-> fn, lba |-> lba, count |-> count]
    /\ ret' = r
    /\ UNCHANGED <<disk, block_size, total_sectors, env, pre>>

CreatePartitionDevice(info) ==
    /\ phase = "idle"
    /\ part' = create_partition_device(Entered, info)
    /\ PartReturned("create_partition_device", u64(0), u32(0),
                    [status |-> IF part'.open THEN "CREATED" ELSE "NULL",
                     delegated |-> <<>>])

PartitionReadBlocks(lba, count) ==
    /\ phase = "idle"
    /\ part.open
    /\ PartReturned("partition_read_blocks", lba, count,
                    partition_read_blocks(part, total_sectors, lba, count))
    /\ UNCHANGED part

PartitionWriteBlocks(lba, count) ==
    /\ phase = "idle"
    /\ part.open
    /\ PartReturned("partition_write_blocks", lba, count,
                    partition_write_blocks(part, total_sectors, lba, count))
    /\ UNCHANGED part

PartitionFlush ==
    /\ phase = "idle"
    /\ part.open
    /\ PartReturned("partition_flush", u64(0), u32(0), partition_flush(part))
    /\ UNCHANGED part

NextPart ==
    \/ \E info \in PartInfos : CreatePartitionDevice(info)
    \/ \E lba \in LbaSamples, count \in CountSamples :
          PartitionReadBlocks(lba, count)
    \/ \E lba \in LbaSamples, count \in CountSamples :
          PartitionWriteBlocks(lba, count)
    \/ PartitionFlush
    \/ Forget

SpecPart == InitPart /\ [][NextPart]_vars

-----------------------------------------------------------------------------
(* check_gpt_entries on its own: the device holds an entry array.          *)

\* the entries of the arrays: unused, in range, out of range
Span(k, slot) ==
    CASE k = 0 -> Zeros(SizeofGptEntry)
      [] k = 1 -> MkEntry(slot, 10, 20, 0)
      [] k = 2 -> MkEntry(slot, 20, 30, 0)
      [] k = 3 -> MkEntry(slot, 10, 19, 0)
      [] k = 4 -> MkEntry(slot, 12, 25, 0)
      [] k = 5 -> MkEntry(slot, 21, 22, 0)
      [] k = 6 -> MkEntry(slot, 5, 15, 0)            \* starts before first usable
      [] k = 7 -> MkEntry(slot, 25, 40, 0)           \* ends after last usable
      [] OTHER -> MkEntry(slot, 20, 20, 2)           \* attribute bit 1

\* the number of entries of the arrays
ArrayLen == 3

\* a header over ArrayLen entries whose usable range is [10, 30]
ArrayHeader == HeaderFields(1, 0, 10, 30, 2, ArrayLen, Zeros(4))

RECURSIVE SpanArray(_, _)
SpanArray(a, i) ==
    IF i > Len(a) THEN <<>> ELSE Span(a[i], i) \o SpanArray(a, i + 1)

InitEntries ==
    /\ \E a \in [1..ArrayLen -> 0..8] : disk = SpanArray(a, 1)
    /\ block_size = SECTOR_SIZE
    /\ total_sectors = DiskBlocks
    /\ env = RealEnv
    /\ phase = "idle"
    /\ call = NoCall
    /\ pre = <<>>
    /\ ret = NoReturn
    /\ part = NoPart

CheckGptEntries ==
    /\ phase = "idle"
    /\ phase' = "done"
    /\ call' = [fn |-> "check_gpt_entries", max |-> 0]
    /\ ret' = [status |-> "void",
               entry_status |-> check_gpt_entries(ArrayHeader, disk)]
    /\ UNCHANGED <<disk, block_size, total_sectors, env, pre, part>>

NextEntries ==
    \/ CheckGptEntries
    \/ Forget

SpecEntries == InitEntries /\ [][NextEntries]_vars

-----------------------------------------------------------------------------
(* What the specification says of a device image, stated on its bytes.     *)

\* the call fn has returned
Done(fn) == phase = "done" /\ call.fn = fn

\* every request the returned call issued was served
AllServed == \A k \in 1..Len(ret.io) : ret.io[k].ok

\* block lba of image d
Block(d, bs, lba) ==
    IF (lba + 1) * bs <= Len(d) THEN Bytes(d, lba * bs, bs) ELSE <<>>

\* some slot has boot flag 0, type code 0xEE and starting address 1
IsProtective(d) ==
    /\ Len(d) >= SizeofMbr
    /\ \E i \in 0..3 : /\ d[446 + 16 * i + 1] = 0
                       /\ d[446 + 16 * i + 5] = 238
                       /\ Bytes(d, 446 + 16 * i + 8, 4) = <<1, 0, 0, 0>>

\* the entry array a header declares, when it lies inside the image
DeclaredArray(d, bs, h) ==
    IF /\ IsSmall(H_partition_entry_lba(h))
       /\ IsSmall(H_num_partition_entries(h))
       /\ IsSmall(H_partition_entry_size(h))
       /\ Val(H_num_partition_entries(h)) <= 64
       /\ Val(H_partition_entry_size(h)) <= 512
       /\ Val(H_partition_entry_lba(h)) * bs
            + Val(H_num_partition_entries(h)) * Val(H_partition_entry_size(h))
            <= Len(d)
    THEN Bytes(d, Val(H_partition_entry_lba(h)) * bs,
               Val(H_num_partition_entries(h)) * Val(H_partition_entry_size(h)))
    ELSE <<-1>>

\* the five conditions of a valid copy at block lba: signature, header
\* checksum with the field zeroed, self address, entry size, array checksum
SignatureOk(h) == Bytes(h, 0, 8) = <<69, 70, 73, 32, 80, 65, 82, 84>>

HeaderCrcOk(h) ==
    /\ IsSmall(H_header_size(h))
    /\ Val(H_header_size(h)) \in 1..Len(h)
    /\ H_header_crc32(h)
         = calculate_crc32(SetBytes(h, 16, Zeros(4)), Val(H_header_size(h)))

SelfOk(h, lba) == H_my_lba(h) = u64(lba)

EntrySizeOk(h) == Ge(H_partition_entry_size(h), u32(128))

ArrayCrcOk(d, bs, h) ==
    /\ DeclaredArray(d, bs, h) # <<-1>>
    /\ H_partition_array_crc32(h)
         = calculate_crc32(DeclaredArray(d, bs, h), Len(DeclaredArray(d, bs, h)))

Validates(d, bs, lba) ==
    /\ Block(d, bs, lba) # <<>>
    /\ SignatureOk(Block(d, bs, lba))
    /\ HeaderCrcOk(Block(d, bs, lba))
    /\ SelfOk(Block(d, bs, lba), lba)
    /\ EntrySizeOk(Block(d, bs, lba))
    /\ ArrayCrcOk(d, bs, Block(d, bs, lba))

\* a protective MBR and two copies that validate
ValidGptImage(d, bs, total) ==
    /\ bs = SECTOR_SIZE /\ total >= 3
    /\ IsProtective(d)
    /\ Validates(d, bs, 1)
    /\ Validates(d, bs, total - 1)

\* entry number i (1..) of the array of header h
SlotOf(d, bs, h, i) ==
    Bytes(DeclaredArray(d, bs, h), (i - 1) * Val(H_partition_entry_size(h)),
          SizeofGptEntry)

NonEmpty(e) == E_partition_type_guid(e) # Zeros(16)

\* start <= end and both addresses inside [first_usable_lba, last_usable_lba]
InRange(h, e) ==
    /\ Le(E_starting_lba(e), E_ending_lba(e))
    /\ Ge(E_starting_lba(e), H_first_usable_lba(h))
    /\ Le(E_ending_lba(e), H_last_usable_lba(h))

\* neither is wholly before the other
Overlaps(a, b) ==
    /\ Ge(E_ending_lba(a), E_starting_lba(b))
    /\ Le(E_starting_lba(a), E_ending_lba(b))

\* what identifies a descriptor's entry
Identity(p) == <<p.type_guid, p.start_lba, p.end_lba>>

EntryIdentity(e) ==
    <<E_partition_type_guid(e), E_starting_lba(e), E_ending_lba(e)>>

\* the identities of the slots i..n that Keep admits, in ascending order
RECURSIVE Kept(_, _, _)
Kept(Keep(_), i, n) ==
    IF i > n THEN <<>>
    ELSE IF Keep(i) THEN <<i>> \o Kept(Keep, i + 1, n)
    ELSE Kept(Keep, i + 1, n)

\* the returned list holds exactly the entries of slots, in that order
ReturnsSlots(d, bs, h, slots) ==
    /\ \A k \in 1..Len(ret.partitions) : ret.partitions[k].scheme = "GPT"
    /\ [k \in 1..Len(ret.partitions) |-> Identity(ret.partitions[k])]
         = [k \in 1..Len(slots) |-> EntryIdentity(SlotOf(d, bs, h, slots[k]))]

-----------------------------------------------------------------------------
(* The claims about discovery.                                             *)

\* a discovery entry point has returned
Discovered ==
    /\ phase = "done"
    /\ call.fn \in {"discover_gpt_partitions", "discover_mbr_partitions",
                    "discover_partitions"}

\* the slots of the primary array that are non-empty, in range and overlap
\* no other non-empty entry
UsableSlots(d, bs, h) ==
    Kept(LAMBDA i :
            /\ NonEmpty(SlotOf(d, bs, h, i))
            /\ InRange(h, SlotOf(d, bs, h, i))
            /\ \A j \in (1..Val(H_num_partition_entries(h))) \ {i} :
                  NonEmpty(SlotOf(d, bs, h, j))
                  => ~Overlaps(SlotOf(d, bs, h, i), SlotOf(d, bs, h, j)),
         1, Val(H_num_partition_entries(h)))

\* C1: on an image with a protective MBR and two GPT copies that validate,
\* discover_gpt_partitions and discover_partitions, called with a maximum of
\* at least the entry count where every allocation and request succeeds,
\* return success and exactly the entries that are non-empty, in range and
\* overlap no other entry, one descriptor each, in ascending slot order.
C1_ExactUsableEntries ==
    ( /\ phase = "done"
      /\ call.fn \in {"discover_gpt_partitions", "discover_partitions"}
      /\ env = RealEnv
      /\ ValidGptImage(pre, block_size, total_sectors)
      /\ call.max >= Val(H_num_partition_entries(Block(pre, block_size, 1))) )
    => /\ ret.status = "SUCCESS"
       /\ ReturnsSlots(pre, block_size, Block(pre, block_size, 1),
                       UsableSlots(pre, block_size, Block(pre, block_size, 1)))

\* every write the returned call issued succeeded
WritesServed ==
    \A k \in 1..Len(ret.io) : ret.io[k].op = "write" => ret.io[k].ok

\* block 0 is a protective MBR, the primary at block 1 does not validate,
\* the backup in the last block does, and every write succeeded
PrimaryLost ==
    /\ Done("discover_gpt_partitions")
    /\ block_size = SECTOR_SIZE /\ total_sectors >= 3
    /\ IsProtective(pre)
    /\ ~Validates(pre, block_size, 1)
    /\ Validates(pre, block_size, total_sectors - 1)
    /\ WritesServed

\* the backup names block 1 as its twin, every allocation and read of the
\* call succeeded as well, and the entry count and size in block 1 have a
\* product that fits 32 bits
RestorableToBlock1 ==
    /\ PrimaryLost
    /\ env.alloc = {}
    /\ AllServed
    /\ H_alternate_lba(Block(pre, block_size, total_sectors - 1)) = u64(1)
    /\ ~MulOverflows32(H_num_partition_entries(Block(pre, block_size, 1)),
                       H_partition_entry_size(Block(pre, block_size, 1)))

\* C2 as stated: whenever the primary is lost and the writes succeed,
\* discover_gpt_partitions returns success and leaves a device on which
\* block 1 validates on its own.
C2_PrimaryRestoredAsStated ==
    PrimaryLost => /\ ret.status = "SUCCESS"
                   /\ Validates(disk, block_size, 1)

\* where the primary is restorable to block 1, discover_gpt_partitions
\* returns success and leaves a device on which block 1 validates on its own
C2_PrimaryRestored ==
    RestorableToBlock1 => /\ ret.status = "SUCCESS"
                          /\ Validates(disk, block_size, 1)

C2_Witness ==
    /\ RestorableToBlock1
    /\ ret.status = "SUCCESS"
    /\ disk # pre
    /\ Validates(disk, block_size, 1)

\* a request of the returned call read block 0
ReadBlock0 ==
    \E k \in 1..Len(ret.io) :
        ret.io[k].op = "read" /\ ret.io[k].offset = u64(0)

\* C3: discover_partitions tries GPT first; when GPT detection succeeds it
\* returns that result without reading block 0; MBR detection is tried only
\* after GPT detection reported not-found; when both fail the result is
\* not-found; a successful list holds descriptors of one scheme.
C3_GptFirstMbrOnlyAfterNotFound ==
    (Done("discover_partitions") /\ ret.status # "UNDEFINED")
    => /\ ret.tried[1] = "GPT"
       /\ ret.gpt = "SUCCESS"
            => (ret.tried = <<"GPT">> /\ ~ReadBlock0 /\ ret.status = "SUCCESS")
       /\ Len(ret.tried) > 1 => ret.gpt = "NOT_FOUND"
       /\ ret.status \in {"SUCCESS", "NOT_FOUND"}
       /\ ret.status = "SUCCESS"
            => \A j, k \in 1..Len(ret.partitions) :
                  ret.partitions[j].scheme = ret.partitions[k].scheme

\* C7: when block 0 is a protective MBR (and the maximum is at least one and
\* every allocation and request succeeds), discover_mbr_partitions reports
\* not-found, and so does detect_mbr_partitions when discover_partitions
\* falls back to it: no descriptor is emitted from the MBR.
C7_ProtectiveMbrNotFound ==
    ( /\ phase = "done"
      /\ call.fn \in {"discover_mbr_partitions", "discover_partitions"}
      /\ call.max >= 1
      /\ env = RealEnv
      /\ block_size = SECTOR_SIZE
      /\ IsProtective(pre) )
    => /\ \A k \in 1..Len(ret.partitions) : ret.partitions[k].scheme # "MBR"
       /\ call.fn = "discover_mbr_partitions" => ret.status = "NOT_FOUND"
       /\ (call.fn = "discover_partitions" /\ Len(ret.tried) > 1)
            => ret.status = "NOT_FOUND"

\* C8: on a device of zero blocks, or of blocks smaller than 512 bytes, every
\* discovery entry point returns InvalidParameter and issues no read.
C8_DegenerateDeviceRejected ==
    (Discovered /\ (total_sectors = 0 \/ block_size < 512))
    => /\ ret.status = "INVALID_PARAM"
       /\ \A k \in 1..Len(ret.io) : ret.io[k].op # "read"

\* C9: discovery called with a maximum of at least one never returns
\* success with an empty list.
C9_NoEmptySuccess ==
    (Discovered /\ call.max >= 1 /\ ret.status = "SUCCESS")
    => (ret.count >= 1 /\ Len(ret.partitions) >= 1)

\* C10: validate_gpt_table(dev, lba) returns success only if the block at
\* lba carries the signature, its stored header checksum equals the one
\* recomputed with the field zeroed, its self address is lba, its entry size
\* is at least 128 and the array it declares has the stored array checksum.
C10_AcceptsOnlyValidCopies ==
    (Done("validate_gpt_table") /\ ret.status = "TRUE")
    => Validates(pre, block_size, call.max)

C10_Witness ==
    /\ Done("validate_gpt_table")
    /\ ret.status = "TRUE"
    /\ call.max = total_sectors - 1
    /\ Validates(pre, block_size, call.max)

\* the partition numbers an MBR image of case m yields: the slots in order,
\* the extended slot replaced by the numbers of its logical partitions
RECURSIVE NumbersFrom(_, _)
NumbersFrom(m, i) ==
    IF i > 4 THEN <<>>
    ELSE IF i = m.x THEN [j \in 1..m.k |-> 4 + j] \o NumbersFrom(m, i + 1)
    ELSE IF i \in m.prim THEN <<i>> \o NumbersFrom(m, i + 1)
    ELSE NumbersFrom(m, i + 1)

\* discover_mbr_partitions returned from an image of case m, called with a
\* maximum that admits every partition, every allocation and read served
ChainCase(m) ==
    /\ Done("discover_mbr_partitions")
    /\ m.x # 0
    /\ pre = MbrImages[m]
    /\ block_size = SECTOR_SIZE
    /\ env = RealEnv
    /\ call.max >= Cardinality(m.prim) + m.k

\* C6: for an MBR with one extended partition whose EBR chain holds k
\* logical partitions and p non-empty primary slots, discover_mbr_partitions
\* with a large enough maximum (every allocation and read succeeding) returns
\* p + k descriptors: each primary numbered by its slot, the logical
\* partitions numbered 5 .. 4 + k in chain order.
C6_LogicalNumbering ==
    \A m \in MbrCases :
        ChainCase(m)
        => /\ Len(ret.partitions) = Cardinality(m.prim) + m.k
           /\ [i \in 1..Len(ret.partitions) |->
                  ret.partitions[i].partition_number] = NumbersFrom(m, 1)
           /\ \A i \in 1..Len(ret.partitions) :
                 LET p == ret.partitions[i]
                 IN  IF p.partition_number > 4
                     THEN p.start_lba = u64(p.partition_number - 4 + 2)
                     ELSE p.start_lba = u64(DiskBlocks - 1)
           /\ Cardinality(m.prim) + m.k >= 1
                => (ret.status = "SUCCESS"
                    /\ ret.count = Cardinality(m.prim) + m.k)

C6_Witness ==
    \E m \in MbrCases :
        /\ ChainCase(m)
        /\ m.k = 3 /\ Cardinality(m.prim) = 2
        /\ Len(ret.partitions) = 5
        /\ ret.partitions[Len(ret.partitions) - 1].partition_number = 7

-----------------------------------------------------------------------------
(* The claim about the partition device.                                   *)

\* nine bytes hold a sum of 64-bit values exactly
Wide(a) == Zext(a, 9)

\* the blocks lba .. lba + count - 1 lie inside [start_lba, end_lba]
InsidePartition(info, lba, count) ==
    \/ count = u32(0)
    \/ /\ Le(info.start_lba, lba)
       /\ Le(Add(Wide(lba), Wide(count)), Add(Wide(info.end_lba), LE(1, 9)))

\* C4: every read or write request (lba, count) on a partition device is
\* either rejected with a bounds error without reaching the parent, or
\* delegated once to the parent at start_lba + lba with the same count, and
\* then addresses only blocks inside [start_lba, end_lba].
C4_RequestsStayInside ==
    ( /\ phase = "done"
      /\ call.fn \in {"partition_read_blocks", "partition_write_blocks"} )
    => \/ ret.status = "INVALID_PARAM" /\ ret.delegated = <<>>
       \/ /\ Len(ret.delegated) = 1
          /\ ret.delegated[1].count = call.count
          /\ Wide(ret.delegated[1].lba)
               = Add(Wide(part.info.start_lba), Wide(call.lba))
          /\ InsidePartition(part.info, ret.delegated[1].lba, call.count)

-----------------------------------------------------------------------------
(* The claim about check_gpt_entries.                                      *)

\* entry number i (0..) of the array the device holds
ArrayEntry(i) == Bytes(disk, i * SizeofGptEntry, SizeofGptEntry)

\* a non-empty entry inside the usable range
Sound(i) == NonEmpty(ArrayEntry(i)) /\ InRange(ArrayHeader, ArrayEntry(i))

Flagged(i) == ret.entry_status[i].overlap

\* C5 as stated: any two non-empty in-range entries are both flagged
\* overlapping if and only if they overlap each other.
C5_BothFlaggedIffOverlapAsStated ==
    Done("check_gpt_entries")
    => \A a, b \in 0..(ArrayLen - 1) :
          (a # b /\ Sound(a) /\ Sound(b))
          => ((Flagged(a) /\ Flagged(b))
                <=> Overlaps(ArrayEntry(a), ArrayEntry(b)))

\* C5, amended: two non-empty in-range entries that overlap each other
\* (boundary-inclusive) are both flagged, whatever their slots; and a
\* non-empty in-range entry is flagged exactly when it overlaps some other
\* non-empty entry that is in range or sits in a later slot.
C5_FlaggedIffOverlapsSome ==
    Done("check_gpt_entries")
    => /\ \A a, b \in 0..(ArrayLen - 1) :
             (a # b /\ Sound(a) /\ Sound(b)
                /\ Overlaps(ArrayEntry(a), ArrayEntry(b)))
             => (Flagged(a) /\ Flagged(b))
       /\ \A a \in 0..(ArrayLen - 1) :
             Sound(a)
             => (Flagged(a)
                   <=> \E c \in (0..(ArrayLen - 1)) \ {a} :
                          /\ NonEmpty(ArrayEntry(c))
                          /\ Overlaps(ArrayEntry(a), ArrayEntry(c))
                          /\ (Sound(c) \/ c > a))

\* [10,20] and [20,30] meet at 20 and are flagged; [10,19] after them
\* overlaps the first only
C5_Witness ==
    /\ Done("check_gpt_entries")
    /\ disk = SpanArray(<<1, 2, 3>>, 1)
    /\ Flagged(0) /\ Flagged(1) /\ Flagged(2)
    /\ ~Overlaps(ArrayEntry(1), ArrayEntry(2))

-----------------------------------------------------------------------------
(* The claims about the caller's maximum, errors, buffers and writes.      *)

\* a maximum no image of the model reaches
NoLimit == MaxWalk + MaxChain

\* the plan of failing requests the environment holds
Plan == [alloc |-> env.alloc, read |-> env.read, write |-> env.write]

\* what the call that returned yields on the same image, in the same
\* environment, when the caller's maximum is max
Rerun(max) ==
    CASE call.fn = "discover_gpt_partitions" ->
           discover_gpt_partitions(NewCtx(pre, block_size, Plan),
                                   u64(total_sectors), max)
      [] call.fn = "discover_mbr_partitions" ->
           discover_mbr_partitions(NewCtx(pre, block_size, Plan), max)
      [] OTHER ->
           discover_partitions(NewCtx(pre, block_size, Plan), Stack(env), max)

Least(a, b) == IF a <= b THEN a ELSE b

\* C11: for every image and every maximum m >= 1, a successful discovery
\* returns a count <= m, stores no descriptor at an index >= m, and returns
\* the first count elements, in order, of the list the same image yields
\* with an unbounded maximum; where the unbounded call succeeds with more
\* than m partitions the bounded call succeeds too, with m of them.
C11_BoundedPrefix ==
    (Discovered /\ call.max >= 1)
    => LET all == Rerun(NoLimit)
       IN  /\ ret.status = "SUCCESS"
              => /\ ret.count <= call.max
                 /\ Len(ret.partitions) = ret.count
                 /\ all.status = "SUCCESS"
                 /\ ret.count = Least(call.max, all.count)
                 /\ ret.partitions = SubSeq(all.partitions, 1, ret.count)
           /\ (all.status = "SUCCESS" /\ all.count > call.max)
              => (ret.status = "SUCCESS" /\ ret.count = call.max)

\* more partitions than the maximum, some of them in an EBR chain
C11_Witness ==
    /\ Done("discover_mbr_partitions")
    /\ call.max = 2
    /\ ret.status = "SUCCESS"
    /\ ret.count = 2
    /\ ret.partitions[2].partition_number = 6
    /\ Rerun(NoLimit).count > 3

\* a device read of the call returned a failure status
ReadFailed ==
    \E i \in 1..Len(ret.io) : ret.io[i].op = "read" /\ ~ret.io[i].ok

\* C12: a failure status returned by a device read during discovery reaches
\* the caller unchanged: a call in which a read failed returns the
\* device's status, never success, NotFound or another status.
C12_ReadFailureReported ==
    (Discovered /\ ReadFailed) => ret.status = DEVICE_ERROR

\* C13: whatever the allocator and the device answer, no allocation is
\* outstanding when discover_gpt_partitions, discover_mbr_partitions,
\* validate_gpt_table or restore_gpt_table returns (a chain walk that does
\* not return, status "HANG", frees nothing and is not a return).
C13_NoBufferOutlivesCall ==
    ( /\ phase = "done"
      /\ call.fn \in {"discover_gpt_partitions", "discover_mbr_partitions",
                      "validate_gpt_table", "restore_gpt_table"}
      /\ ret.status # "HANG" )
    => ret.live = 0

\* an allocation failed while the block read first was held
C13_Witness ==
    /\ Done("discover_gpt_partitions")
    /\ env.alloc # {} /\ env.alloc # 1..MaxRequests
    /\ ret.status = "OUT_OF_MEMORY"
    /\ Len(ret.io) >= 1
    /\ ret.live = 0

\* the call issued no write
NoWrite == \A k \in 1..Len(ret.io) : ret.io[k].op # "write"

\* the primary validates at block 1 and its twin at the address it declares
BothValid(d, bs) ==
    /\ Validates(d, bs, 1)
    /\ IsSmall(H_alternate_lba(Block(d, bs, 1)))
    /\ Validates(d, bs, Val(H_alternate_lba(Block(d, bs, 1))))

\* neither the primary at block 1 nor the backup in the last block validates
NeitherValid(d, bs, total) ==
    /\ ~Validates(d, bs, 1)
    /\ total >= 1 => ~Validates(d, bs, total - 1)

\* C14: discovery writes only to recover.  discover_mbr_partitions and
\* discover_partitions issue no write; discover_gpt_partitions issues none
\* when block 0 is no protective MBR, when neither copy validates, or when
\* both copies validate on the first attempt (every allocation and read of
\* the call succeeding).
C14_WritesOnlyInRecovery ==
    /\ (phase = "done"
          /\ call.fn \in {"discover_mbr_partitions", "discover_partitions"})
       => NoWrite /\ disk = pre
    /\ Done("discover_gpt_partitions")
       => /\ ~IsProtective(pre) => (NoWrite /\ disk = pre)
          /\ NeitherValid(pre, block_size, total_sectors)
               => (NoWrite /\ disk = pre)
          /\ (BothValid(pre, block_size) /\ env.alloc = {} /\ AllServed)
               => (NoWrite /\ disk = pre)

\* both copies validated, the entries were read, nothing was written
C14_Witness ==
    /\ Done("discover_gpt_partitions")
    /\ IsProtective(pre)
    /\ BothValid(pre, block_size)
    /\ ret.status = "SUCCESS"
    /\ ret.count >= 1
    /\ NoWrite

\* the block validate_gpt_table was asked about, as the device held it
AskedBlock == Block(pre, block_size, call.max)

\* the header size a block declares is one check_header_crc accepts
SizeOk(h) == IsSmall(H_header_size(h)) /\ Val(H_header_size(h)) \in 1..Len(h)

\* C15: checksum round trip.  For every header validate_gpt_table accepted,
\* set_header_crc over the declared size stores the value the device held;
\* and check_header_crc succeeds on any header to which set_header_crc was
\* just applied with the same size.
C15_ChecksumRoundTrip ==
    Done("validate_gpt_table")
    => /\ ret.status = "TRUE"
          => /\ H_header_crc32(set_header_crc(H_header_size(AskedBlock),
                                              AskedBlock))
                  = H_header_crc32(AskedBlock)
             /\ set_header_crc(H_header_size(ret.header), ret.header)
                  = Bytes(AskedBlock, 0, SizeofGptHeader)
       /\ (AskedBlock # <<>> /\ SizeOk(AskedBlock))
          => check_header_crc(u32(block_size), H_header_size(AskedBlock),
                 set_header_crc(H_header_size(AskedBlock), AskedBlock)).ok

\* an accepted backup copy, and a damaged primary that was resealed
C15_Witness ==
    /\ Done("validate_gpt_table")
    /\ ret.status = "TRUE"
    /\ call.max = total_sectors - 1
    /\ set_header_crc(H_header_size(AskedBlock), AskedBlock) = AskedBlock

-----------------------------------------------------------------------------
(* The claims about restoration.                                           *)

\* the write requests of the returned call, in order
RECURSIVE WritesFrom(_)
WritesFrom(k) ==
    IF k > Len(ret.io) THEN <<>>
    ELSE IF ret.io[k].op = "write" THEN <<ret.io[k]>> \o WritesFrom(k + 1)
    ELSE WritesFrom(k + 1)

\* restore_gpt_table returned true: both of its writes were served
RestoreDone == Done("restore_gpt_table") /\ ret.status = "TRUE"

\* the header the call was given, and the block its first write carried
Source == ret.header

NewHeader == WritesFrom(1)[1].data

\* the new header is the source with the two addresses swapped; every field
\* but these, the entry location and the checksum is the source's
SwappedCopy ==
    /\ H_my_lba(NewHeader) = H_alternate_lba(Source)
    /\ H_alternate_lba(NewHeader) = H_my_lba(Source)
    /\ Bytes(NewHeader, 0, 16) = Bytes(Source, 0, 16)
    /\ Bytes(NewHeader, 20, 4) = Bytes(Source, 20, 4)
    /\ Bytes(NewHeader, 40, 32) = Bytes(Source, 40, 32)
    /\ Bytes(NewHeader, 80, 12) = Bytes(Source, 80, 12)

\* the source is the primary copy: the backup slot is being restored
FromPrimary == H_my_lba(Source) = u64(PRIMARY_PART_HEADER_LBA)

AfterUsable == Add(H_last_usable_lba(Source), u64(1))

\* C16 as stated: the new header is the swapped copy, and its entry array
\* is placed at last_usable_lba + 1 when the primary slot is restored and
\* at block 2 when the backup slot is restored.
C16_EntryLocationAsStated ==
    RestoreDone
    => /\ SwappedCopy
       /\ H_partition_entry_lba(NewHeader)
            = IF FromPrimary THEN u64(2) ELSE AfterUsable

\* C16, amended: the new header is the swapped copy, and its entry array is
\* placed at block 2 (immediately after the primary header) when the
\* primary slot is restored from the backup, and at last_usable_lba + 1
\* (immediately after the usable range) when the backup slot is restored
\* from the primary.
C16_EntryLocation ==
    RestoreDone
    => /\ SwappedCopy
       /\ H_partition_entry_lba(NewHeader)
            = IF FromPrimary THEN AfterUsable ELSE u64(2)

\* the primary slot was restored from the backup in the last block
C16_Witness ==
    /\ RestoreDone
    /\ call.max = total_sectors - 1
    /\ ~FromPrimary
    /\ H_my_lba(NewHeader) = u64(PRIMARY_PART_HEADER_LBA)
    /\ H_partition_entry_lba(NewHeader) = u64(2)
    /\ AfterUsable # u64(2)

\* request k of the returned call is a write (a read) of size bytes at the
\* start of block lba
IsRequest(k, op, lba, size) ==
    /\ ret.io[k].op = op
    /\ ret.io[k].offset = Mul(lba, Zext(u32(block_size), 8))
    /\ ret.io[k].size = size

\* C17: restore_gpt_table writes the new header block first.  If that write
\* fails nothing else is requested and the call fails; the entry array is
\* read and written to its new location only after the header write
\* succeeded; a failed entry-array write makes the call fail.
C17_HeaderBeforeEntries ==
    Done("restore_gpt_table")
    => /\ Len(ret.io) <= 3
       /\ Len(ret.io) >= 1
            => IsRequest(1, "write", H_alternate_lba(Source), u32(block_size))
       /\ (Len(ret.io) >= 1 /\ ~ret.io[1].ok)
            => (Len(ret.io) = 1 /\ ret.status = "FALSE")
       /\ Len(ret.io) >= 2
            => /\ ret.io[1].ok
               /\ IsRequest(2, "read", H_partition_entry_lba(Source),
                            EntriesSize(Source))
       /\ Len(ret.io) = 3
            => /\ ret.io[2].ok
               /\ IsRequest(3, "write", new_entry_lba(Source),
                            EntriesSize(Source))
       /\ ret.status = "TRUE"
            <=> (Len(ret.io) = 3 /\ ret.io[3].ok)

\* the header write failed
C17_Witness ==
    /\ Done("restore_gpt_table")
    /\ Len(ret.io) = 1
    /\ ~ret.io[1].ok
    /\ ret.status = "FALSE"
    /\ disk = pre

\* restore_gpt_table ran at most once: it issues at most two writes, the
\* second only after the first succeeded
AtMostOneRestore ==
    /\ Len(WritesFrom(1)) <= 2
    /\ Len(WritesFrom(1)) = 2 => WritesFrom(1)[1].ok

WriteFailed ==
    \E k \in 1..Len(ret.io) : ret.io[k].op = "write" /\ ~ret.io[k].ok

ReadsServed ==
    \A k \in 1..Len(ret.io) : ret.io[k].op = "read" => ret.io[k].ok

\* exactly one copy validates on the device the call started from: the
\* primary at block 1 (its twin at the declared alternate does not), or the
\* backup in the last block (the primary does not)
PrimarySurvives ==
    /\ Validates(pre, block_size, 1)
    /\ IsSmall(H_alternate_lba(Block(pre, block_size, 1)))
    /\ ~Validates(pre, block_size, Val(H_alternate_lba(Block(pre, block_size, 1))))

BackupSurvives ==
    /\ total_sectors >= 3
    /\ ~Validates(pre, block_size, 1)
    /\ Validates(pre, block_size, total_sectors - 1)

Survivor ==
    IF PrimarySurvives THEN Block(pre, block_size, 1)
    ELSE Block(pre, block_size, total_sectors - 1)

\* the list discovery draws from the entry array of header h
ListOf(h) ==
    process_gpt_entries(h, DeclaredArray(pre, block_size, h),
        check_gpt_entries(h, DeclaredArray(pre, block_size, h)),
        call.max, 0, <<>>)

\* a write of the call's one restore failed; allocations and reads succeeded
RestoreFailed ==
    /\ Done("discover_gpt_partitions")
    /\ block_size = SECTOR_SIZE
    /\ IsProtective(pre)
    /\ PrimarySurvives \/ BackupSurvives
    /\ env.alloc = {}
    /\ ReadsServed
    /\ WriteFailed

\* the offset of the entry array the call enumerated: its last request
EnumeratedAt == ret.io[Len(ret.io)].offset

ArrayOffset(h) == Mul(H_partition_entry_lba(h), Zext(u32(block_size), 8))

\* the copy the failed restore was to regenerate validates all the same in
\* the device the call left (its header was written, the entries it names
\* were intact)
TargetValidates ==
    /\ BackupSurvives
    /\ IsSmall(H_alternate_lba(Survivor))
    /\ Validates(disk, block_size, Val(H_alternate_lba(Survivor)))

PrimaryAlternate == Val(H_alternate_lba(Block(pre, block_size, 1)))

\* C19: if the primary validates, the copy at the primary's alternate_lba
\* does not, and every write (as well as every allocation and read)
\* succeeds, discover_gpt_partitions returns success and leaves a device on
\* which validate_gpt_table succeeds at that alternate_lba while the
\* primary at block 1 still validates.
C19_BackupRestored ==
    ( /\ Done("discover_gpt_partitions")
      /\ block_size = SECTOR_SIZE
      /\ IsProtective(pre)
      /\ PrimarySurvives
      /\ env.alloc = {}
      /\ AllServed )
    => /\ ret.status = "SUCCESS"
       /\ Validates(disk, block_size, PrimaryAlternate)
       /\ Validates(disk, block_size, 1)


-----------------------------------------------------------------------------
(* The claim about entries marked implementation-reserved.                 *)

\* discover_gpt_partitions has returned from a device with a protective MBR
\* and two copies that validate, every allocation and request served
ValidTableDiscovered ==
    /\ Done("discover_gpt_partitions")
    /\ env = RealEnv
    /\ block_size = SECTOR_SIZE
    /\ IsProtective(pre)
    /\ BothValid(pre, block_size)

Primary == Block(pre, block_size, 1)

PrimarySlots == 1..Val(H_num_partition_entries(Primary))

PrimarySlot(i) == SlotOf(pre, block_size, Primary, i)

\* attribute bit 1 of a non-empty entry
Reserved(e) == NonEmpty(e) /\ (E_attributes(e)[1] \div 2) % 2 = 1

\* what check_gpt_entries records for slot i of the primary array
ReservedFlag(i) ==
    check_gpt_entries(Primary, DeclaredArray(pre, block_size, Primary))[i - 1].os_specific

\* slot i is non-empty, in range, not reserved and overlaps no other entry
ValidOther(i) ==
    /\ NonEmpty(PrimarySlot(i))
    /\ InRange(Primary, PrimarySlot(i))
    /\ ~Reserved(PrimarySlot(i))
    /\ \A j \in PrimarySlots \ {i} :
          NonEmpty(PrimarySlot(j)) => ~Overlaps(PrimarySlot(i), PrimarySlot(j))

\* slot i has a descriptor in the returned list
Listed(i) ==
    \E k \in 1..Len(ret.partitions) :
        /\ ret.partitions[k].partition_number = i
        /\ Identity(ret.partitions[k]) = EntryIdentity(PrimarySlot(i))

\* no slot with attribute bit 1 is listed, the call succeeds, and a list
\* shorter than the maximum holds every valid other entry
ReservedOmitted ==
    /\ ret.status = "SUCCESS"
    /\ \A i \in PrimarySlots : Reserved(PrimarySlot(i)) => ~Listed(i)
    /\ Len(ret.partitions) < call.max
         => \A i \in PrimarySlots : ValidOther(i) => Listed(i)

\* C20 as stated: on a valid table every non-empty entry with attribute
\* bit 1 set is flagged implementation-reserved by check_gpt_entries and is
\* absent from the list discover_gpt_partitions returns, the call succeeds
\* and the other valid entries are returned.
C20_ReservedFlaggedAsStated ==
    ValidTableDiscovered
    => /\ \A i \in PrimarySlots : Reserved(PrimarySlot(i)) => ReservedFlag(i)
       /\ ReservedOmitted

\* C20, amended: on a valid table check_gpt_entries flags an entry
\* implementation-reserved exactly when it is non-empty, in range and has
\* attribute bit 1 set (an out-of-range entry gets the out-of-range flag
\* only); every non-empty entry with attribute bit 1 set is absent from the
\* list discover_gpt_partitions returns, the call succeeds and the other
\* valid entries are returned.
C20_ReservedOmitted ==
    ValidTableDiscovered
    => /\ \A i \in PrimarySlots :
             ReservedFlag(i)
             <=> (Reserved(PrimarySlot(i)) /\ InRange(Primary, PrimarySlot(i)))
       /\ ReservedOmitted

\* a reserved in-range entry was left out and a valid other entry returned
C20_Witness ==
    /\ ValidTableDiscovered
    /\ ret.status = "SUCCESS"
    /\ \E i \in PrimarySlots :
          /\ Reserved(PrimarySlot(i)) /\ InRange(Primary, PrimarySlot(i))
          /\ ReservedFlag(i) /\ ~Listed(i)
    /\ \E i \in PrimarySlots : ValidOther(i) /\ Listed(i)


-----------------------------------------------------------------------------
(* The claims about the EBR chain and the primary slots.                   *)

\* block 0 of the image the call ran on
Table == Block(pre, block_size, 0)

\* a slot that is in use: type code and block count both non-zero
InUse(slot) ==
    P_os_indicator(slot) # PARTITION_TYPE_EMPTY /\ P_size_in_lba(slot) # u32(0)

\* the primary slots (0..3) that hold an extended partition
ExtendedSlots ==
    {i \in 0..3 : /\ Table # <<>>
                  /\ InUse(M_partition(Table, i))
                  /\ is_extended_partition(P_os_indicator(M_partition(Table, i)))}

\* discover_mbr_partitions has returned from a table with one extended
\* partition, every allocation and read served
OneChainWalked ==
    /\ Done("discover_mbr_partitions")
    /\ env = RealEnv
    /\ block_size = SECTOR_SIZE
    /\ ret.status \in {"SUCCESS", "NOT_FOUND"}
    /\ Cardinality(ExtendedSlots) = 1
    /\ Len(ret.io) >= 2

\* the starting address of the extended partition in the primary table
ExtendedBase ==
    Zext(P_starting_lba(M_partition(Table, CHOOSE i \in ExtendedSlots : TRUE)), 8)

\* the block address of the k-th read of the call and the block it read
ReadLba(k) == u64(Val(ret.io[k].offset) \div block_size)

ReadBlock(k) == Bytes(pre, Val(ret.io[k].offset), block_size)

ByteOffset(lba) == Mul(lba, Zext(u32(block_size), 8))

\* the reads that found an EBR with a logical partition in its first slot
LogicalReads ==
    Kept(LAMBDA k : /\ M_signature(ReadBlock(k)) = MBR_SIGNATURE
                    /\ InUse(M_partition(ReadBlock(k), 0)),
         2, Len(ret.io))

\* the logical partitions of the returned list, in order
LogicalList == SelectSeq(ret.partitions, LAMBDA p : p.partition_number >= 5)

\* C21: in the chain walk of discover_mbr_partitions the first EBR is read
\* at the extended partition's starting address, every further EBR at that
\* starting address plus the start field of the second slot of the EBR read
\* before it, and each logical descriptor starts at the address of the EBR
\* it was read from plus the start field of that EBR's first slot.
C21_ChainAddresses ==
    OneChainWalked
    => /\ ret.io[2].offset = ByteOffset(ExtendedBase)
       /\ \A k \in 3..Len(ret.io) :
             ret.io[k].offset
               = ByteOffset(Add(ExtendedBase,
                     Zext(P_starting_lba(M_partition(ReadBlock(k - 1), 1)), 8)))
       /\ Len(LogicalList) = Len(LogicalReads)
       /\ \A j \in 1..Len(LogicalList) :
             LogicalList[j].start_lba
               = Add(ReadLba(LogicalReads[j]),
                     Zext(P_starting_lba(M_partition(ReadBlock(LogicalReads[j]), 0)), 8))

\* a chain of three EBRs was walked whose last link, taken relative to the
\* EBR that holds it, would lead elsewhere, and whose last EBR gave a
\* logical partition
C21_Witness ==
    /\ OneChainWalked
    /\ Len(ret.io) >= 4
    /\ ReadLba(3) # ExtendedBase
    /\ ret.io[4].offset
         # ByteOffset(Add(ReadLba(3),
               Zext(P_starting_lba(M_partition(ReadBlock(3), 1)), 8)))
    /\ Len(LogicalList) >= 2
    /\ LogicalReads[Len(LogicalReads)] = 4


\* discover_mbr_partitions was called where every allocation and read is
\* served
MbrWalked ==
    /\ phase = "done" /\ call.fn = "discover_mbr_partitions"
    /\ env = RealEnv
    /\ block_size = SECTOR_SIZE

\* the second slot of the block read k-th continues the chain
Linked(k) ==
    /\ InUse(M_partition(ReadBlock(k), 1))
    /\ is_extended_partition(P_os_indicator(M_partition(ReadBlock(k), 1)))

\* C22: the EBR chain walk returns for every image and every maximum, also
\* on images whose links lead back to an EBR already visited; in a table
\* with one extended partition the walk stops at the first EBR whose
\* signature does not match or whose second slot is empty or not of an
\* extended type.
C22_WalkTerminates ==
    MbrWalked
    => /\ ret.status # "HANG"
       /\ (Cardinality(ExtendedSlots) = 1 /\ AllServed)
            => \A k \in 2..Len(ret.io) :
                  (M_signature(ReadBlock(k)) # MBR_SIGNATURE \/ ~Linked(k))
                  => k = Len(ret.io)


-----------------------------------------------------------------------------
(* The claims about the fields of an accepted header.                      *)

\* validate_gpt_table has accepted the header of the block it was asked
\* about
Accepted ==
    /\ Done("validate_gpt_table")
    /\ ret.status = "TRUE"

\* C23: every header validate_gpt_table accepts carries the address it was
\* read from as its self address and a first usable block that is not after
\* its last usable block.
C23_UsableRangeOrdered ==
    Accepted
    => /\ H_my_lba(ret.header) = u64(call.max)
       /\ Le(H_first_usable_lba(ret.header), H_last_usable_lba(ret.header))


\* entry_count * entry_size of header h, as a 64-bit number
ExactProduct(h) ==
    Mul(Zext(H_num_partition_entries(h), 8), Zext(H_partition_entry_size(h), 8))

\* the requests of the returned call that are not for one block
ArrayRequests == {k \in 1..Len(ret.io) : ret.io[k].size # u32(block_size)}

\* C24: every header validate_gpt_table accepts has an entry_count *
\* entry_size that fits 32 bits, and the length of every entry array request
\* of validate_gpt_table and restore_gpt_table on an accepted header is that
\* product.
C24_ProductDoesNotWrap ==
    ( /\ phase = "done"
      /\ call.fn \in {"validate_gpt_table", "restore_gpt_table"}
      /\ ret.status = "TRUE" )
    => /\ ~MulOverflows32(H_num_partition_entries(ret.header),
                          H_partition_entry_size(ret.header))
       /\ \A k \in ArrayRequests :
             Zext(ret.io[k].size, 8) = ExactProduct(ret.header)


\* the table of block 0 carries the signature, no slot in use has a boot
\* flag other than 0x00 and 0x80, and no slot is the protective one
PlainTable ==
    /\ Table # <<>>
    /\ M_signature(Table) = MBR_SIGNATURE
    /\ \A i \in 0..3 :
          P_os_indicator(M_partition(Table, i)) # PARTITION_TYPE_EMPTY
          => /\ P_boot_indicator(M_partition(Table, i)) \in {0, 128}
             /\ P_os_indicator(M_partition(Table, i)) # PMBR_GPT_PARTITION

\* the primary slots (0..3) that hold a partition that is not extended
PrimarySlotsInUse ==
    {i \in 0..3 : InUse(M_partition(Table, i))} \ ExtendedSlots

\* slot i (0..3) has its descriptor in the returned list
Described(i) ==
    \E k \in 1..Len(ret.partitions) :
        /\ ret.partitions[k].partition_number = i + 1
        /\ ret.partitions[k].start_lba
             = Zext(P_starting_lba(M_partition(Table, i)), 8)
        /\ ret.partitions[k].size_sectors
             = Zext(P_size_in_lba(M_partition(Table, i)), 8)

\* C25: for an MBR with a valid signature, discover_mbr_partitions (every
\* allocation and read served, the maximum not reached) skips the slots whose
\* type code or block count is zero: every other slot that is not extended
\* has its descriptor, numbered by its slot, no other descriptor carries a
\* slot's number, and the extended slots give the logical partitions of
\* their chains and no descriptor of their own.
C25_EmptySlotsSkipped ==
    ( /\ MbrWalked
      /\ PlainTable
      /\ ret.status # "HANG"
      /\ Len(ret.partitions) < call.max )
    => /\ \A i \in PrimarySlotsInUse : Described(i)
       /\ \A k \in 1..Len(ret.partitions) :
             ret.partitions[k].partition_number <= 4
             => ret.partitions[k].partition_number - 1 \in PrimarySlotsInUse
       /\ Cardinality(ExtendedSlots) = 1
            => Len(LogicalList) = Len(LogicalReads)


-----------------------------------------------------------------------------
(* The claims about what recovery writes and what discovery returns.       *)

\* the valid copy a recovery of the returned call copies from
RecoverySource ==
    IF Validates(pre, block_size, 1) THEN Block(pre, block_size, 1)
    ELSE Block(pre, block_size, total_sectors - 1)

\* the blocks request k of the returned call covers; -1 stands for a block
\* beyond every device of the model
BlocksOf(k) ==
    IF IsSmall(ret.io[k].offset) /\ IsSmall(ret.io[k].size)
    THEN {b \in 0..(2 * DiskBlocks) :
            /\ b * block_size < Val(ret.io[k].offset) + Val(ret.io[k].size)
            /\ (b + 1) * block_size > Val(ret.io[k].offset)}
    ELSE {-1}

\* block b is on the device and outside the usable range of header h
OutsideUsable(h, b) ==
    /\ b >= 0 /\ b < total_sectors
    /\ ~(Le(H_first_usable_lba(h), u64(b)) /\ Le(u64(b), H_last_usable_lba(h)))

\* C26: no write of a discover_gpt_partitions call covers a block inside the
\* usable range of the valid header the recovery copies from, or a block at
\* or past the device's block count.
C26_WritesSpareUsableRange ==
    (Done("discover_gpt_partitions") /\ block_size = SECTOR_SIZE)
    => \A k \in 1..Len(ret.io) :
          ret.io[k].op = "write"
          => \A b \in BlocksOf(k) : OutsideUsable(RecoverySource, b)


\* descriptor p has start <= end and a block count of end - start + 1, the
\* sum taken in 128 bits
WellFormed(p) ==
    /\ Le(p.start_lba, p.end_lba)
    /\ Zext(p.size_sectors, 16)
         = Add(Sub(Zext(p.end_lba, 16), Zext(p.start_lba, 16)), Zext(u32(1), 16))

\* C27: every descriptor a successful discovery returns has start_lba <=
\* end_lba and size_sectors = end_lba - start_lba + 1 without wraparound.
C27_DescriptorsWellFormed ==
    (Discovered /\ ret.status = "SUCCESS")
    => \A k \in 1..Len(ret.partitions) : WellFormed(ret.partitions[k])


\* what discover_gpt_partitions yields when it is called again, with the
\* same maximum, on the device the returned call left
SecondCall ==
    discover_gpt_partitions(NewCtx(disk, block_size, NoFaults),
                            u64(total_sectors), call.max)

\* C28: after a discover_gpt_partitions call in which every allocation and
\* request was served, a second call on the device it left issues no write
\* and returns the same status and the same list.
C28_SecondCallSame ==
    (Done("discover_gpt_partitions") /\ env = RealEnv /\ AllServed)
    => /\ \A k \in 1..Len(SecondCall.io) : SecondCall.io[k].op # "write"
       /\ SecondCall.status = ret.status
       /\ SecondCall.partitions = ret.partitions


\* C29: the partition numbers of a list discover_mbr_partitions returns
\* are pairwise distinct, also when more than one primary slot holds an
\* extended partition.
C29_NumbersDistinct ==
    (Done("discover_mbr_partitions") /\ ret.status = "SUCCESS")
    => \A j, k \in 1..Len(ret.partitions) :
          ret.partitions[j].partition_number = ret.partitions[k].partition_number
          => j = k


-----------------------------------------------------------------------------
(* The claim about the order of the entries.                               *)

\* the array with the entry of slot i moved to slot p[i]
Permuted(p) ==
    Flatten([j \in 1..ArrayLen |->
                ArrayEntry((CHOOSE i \in 0..(ArrayLen - 1) : p[i] = j - 1))])

\* the non-empty entries of array a whose flags st exclude them
ExcludedOf(a, st) ==
    {Bytes(a, i * SizeofGptEntry, SizeofGptEntry) : i \in
        {i \in 0..(ArrayLen - 1) :
            /\ NonEmpty(Bytes(a, i * SizeofGptEntry, SizeofGptEntry))
            /\ (st[i].out_of_range \/ st[i].overlap)}}

\* C30: the set of entries check_gpt_entries flags out of range or
\* overlapping is the same for every order of the array's entries, and an
\* in-range entry is flagged overlapping only when it overlaps another
\* in-range entry.
C30_FlagsIgnoreOrder ==
    Done("check_gpt_entries")
    => /\ \A p \in Permutations(0..(ArrayLen - 1)) :
             ExcludedOf(Permuted(p), check_gpt_entries(ArrayHeader, Permuted(p)))
               = ExcludedOf(disk, ret.entry_status)
       /\ \A i \in 0..(ArrayLen - 1) :
             (Sound(i) /\ Flagged(i))
             => \E j \in (0..(ArrayLen - 1)) \ {i} :
                   Sound(j) /\ Overlaps(ArrayEntry(i), ArrayEntry(j))

====
